---- MODULE Spec2Model ----
(***************************************************************************)
(* Verification model of pulp_rpm's synchronization task                   *)
(* (pulp_rpm/app/tasks/synchronizing.py, pulp_rpm/app/tasks/utils.py).     *)
(*                                                                         *)
(* Three specifications share this module:                                 *)
(*   SpecRun   one RpmFirstStage.run(): root index, fetch groups, emission *)
(*   SpecSync  synchronize(): tree-info probe, sub-tree loop, primary run  *)
(*   SpecSave  RpmContentSaver over the batches of two successive runs     *)
(* Each specification moves its own variables and leaves the others at     *)
(* their idle values.                                                      *)
(***************************************************************************)
EXTENDS Integers, Sequences, FiniteSets, TLC

(***************************************************************************)
(* Bounds of the model.                                                    *)
(***************************************************************************)
\* records read from one root index (repomd.records)
MaxRecords == 5
\* update-metadata entries among them
MaxUpdateEntries == 2
\* distinct locations an update-metadata entry may point at
NumUpdateHrefs == 2
\* update records in one update-metadata file
MaxUpdates == 1
\* package ids occurring in the package-metadata files
MaxPkgId == 2
\* package entries in one package-metadata file of a run
MaxRunFileLen == 1
\* addons and variants a tree-info file declares
MaxAddons == 2
MaxVariants == 2
\* checksums and images a tree-info file declares
MaxChecksums == 1
MaxImages == 1
\* update records listed in the source of a sync
MaxSourceLen == 2
\* collections of an update record, packages of a collection, references
MaxCollections == 1
MaxCollectionPackages == 1
MaxReferences == 1
\* nodes in one batch of the content-persistence stage
MaxBatch == 2
\* packages and update records one first stage builds nodes for
MaxBuildPackages == 2
MaxBuildUpdates == 1
\* nodes the first stage of one pipeline puts
MaxPipelineNodes == 3
\* syncs into one destination, and Package units one sync brings
MaxSyncs == 2
MaxArriving == 2
\* package entries in one package-metadata file given to parse_repodata
MaxFileLen == 2

(***************************************************************************)
(* Program constants.                                                      *)
(***************************************************************************)
\* if 404 == exc.status
NOT_FOUND == 404
\* a status of a successful fetch, and one of a failure that is not 404
HTTP_OK == 200
HTTP_ERROR == 500

VARIABLES
    \* ---- RpmFirstStage.run ----
    kickstart,              \* self.kickstart is truthy
    pc,                     \* position of the run() coroutine
    nrecords,               \* records of repomd.records iterated so far
    package_repodata_urls,  \* dict: repodata type -> url
    updateinfo_url,         \* local updateinfo_url (<<>> while unbound)
    downloaders,            \* list of groups, each a list of urls
    running,                \* per group, the positions still being fetched
    fetched,                \* per group, the gather()ed results by position
    pending,                \* set of group futures not yet returned by wait()
    done,                   \* set of group futures still to iterate
    packages,               \* rest of the iteration over packages.values()
    updates,                \* rest of the iteration over updates
    cur,                    \* group whose records are being emitted (0: none)
    out,                    \* nodes put() to the next stage, in order
    packages_pb,            \* ProgressBar 'Parsed Packages'
    erratum_pb,             \* ProgressBar 'Parsed Erratum'
    error,                  \* the exception that ended the run ("" if none)
    parsed,                 \* history: group -> number of records parsed
    parse_args,             \* history: urls of the files given to parse_repodata
    reordered,              \* history: a fetch of a group finished before an
                            \* earlier one of the same group
    \* ---- synchronize ----
    remote,                 \* the RpmRemote: [url, policy]
    spc,                    \* position of synchronize()
    namespace,              \* index into namespaces of get_kickstart_data
    kickstart_data,         \* the kickstart dict (found = FALSE: None)
    cursor,                 \* [name, i]: position of the two nested for loops
    repositories,           \* pks of the repositories created by synchronize
    fetches,                \* urls handed to downloader.fetch(), in order
    runs,                   \* the dv.create() calls, in order
    sync_error,             \* the exception that ended synchronize
    \* ---- RpmContentSaver ----
    source,                 \* the update records of the remote, in order
    run,                    \* number of the sync under way (1, 2; 3: over)
    stream,                 \* nodes of this run not yet batched
    update_records,         \* persisted UpdateRecord content units
    collections,            \* UpdateCollection rows
    collection_packages,    \* UpdateCollectionPackage rows
    references,             \* UpdateReference rows
    after_first,            \* history: the three tables at the end of run 1
    inserted                \* history: rows inserted by the last batch

runVars == <<kickstart, pc, nrecords, package_repodata_urls, updateinfo_url,
             downloaders, running, fetched, pending, done, packages, updates,
             cur, out, packages_pb, erratum_pb, error, parsed, parse_args,
             reordered>>

syncVars == <<remote, spc, namespace, kickstart_data, cursor, repositories,
              fetches, runs, sync_error>>

saveVars == <<source, run, stream, update_records, collections,
              collection_packages, references, after_first, inserted>>

VARIABLES
    \* ---- one destination over successive syncs ----
    dstage,                 \* position of the pipeline of the sync under way
    syncs,                  \* number of syncs started
    arriving,               \* Package units the first stage emits in this sync
    content,                \* Package units persisted (the content store)
    version,                \* Package units associated with the destination
    fresh                   \* units of `version` associated by this sync

dedupVars == <<dstage, syncs, arriving, content, version, fresh>>

VARIABLES
    \* ---- package extraction ----
    files,                  \* the package entries of primary, filelists, other
    pstage,                 \* position of the extraction
    extracted,              \* rest of the iteration over the returned dict
    emitted                 \* Package nodes built from it, in order

parseVars == <<files, pstage, extracted, emitted>>

VARIABLES
    \* ---- two concurrent runs of the content-persistence stage ----
    workers                 \* per run: position in _post_save, rows to save

raceVars == <<workers>>

VARIABLES
    \* ---- the nodes one first stage builds ----
    address,                \* remote.url, as a url
    stage,                  \* the RpmFirstStage: url_path, kickstart, deferred_download
    todo,                   \* what is left to put: tree, packages, updates
    nodes                   \* the DeclarativeContent nodes put, in order

buildVars == <<address, stage, todo, nodes>>

VARIABLES
    \* ---- the rows of a distribution tree over two syncs ----
    tree_data,              \* extra_data of the DistributionTree node
    tables,                 \* the Addon, Checksum, Image and Variant rows
    first_rows,             \* the rows after the first sync
    tstage,                 \* which sync is under way
    tree_error              \* exception raised by the stage

treeVars == <<tree_data, tables, first_rows, tstage, tree_error>>

VARIABLES
    \* ---- the nodes of one pipeline ----
    passed,                 \* per node: the stages it has left, in order
    removals                \* the RemoveDuplicates stages that have run

pipelineVars == <<passed, removals>>

\* the variables of the further specifications
extVars == <<dedupVars, parseVars, raceVars, buildVars, treeVars, pipelineVars>>
restOfDedup == <<parseVars, raceVars, buildVars, treeVars, pipelineVars>>
restOfParse == <<dedupVars, raceVars, buildVars, treeVars, pipelineVars>>
restOfRace == <<dedupVars, parseVars, buildVars, treeVars, pipelineVars>>
restOfBuild == <<dedupVars, parseVars, raceVars, treeVars, pipelineVars>>
restOfTree == <<dedupVars, parseVars, raceVars, buildVars, pipelineVars>>
restOfPipeline == <<dedupVars, parseVars, raceVars, buildVars, treeVars>>

vars == <<runVars, syncVars, saveVars, extVars>>

(***************************************************************************)
(* Helpers                                                                 *)
(***************************************************************************)
Range(s) == {s[i] : i \in 1..Len(s)}

BoundedSeq(S, n) == UNION {[1..k -> S] : k \in 0..n}

Min(a, b) == IF a < b THEN a ELSE b

\* pulp_rpm.app.constants
PACKAGE_REPODATA == <<"primary", "filelists", "other">>
UPDATE_REPODATA == <<"updateinfo">>
\* a type the index may list and the plugin does not know
UnknownTypes == {"group"}

RecordTypes == Range(PACKAGE_REPODATA) \cup Range(UPDATE_REPODATA) \cup UnknownTypes

\* urllib.parse.urljoin of a base and a relative location. A url is the
\* sequence of its path segments, each a <<name, number>> pair; the url of a
\* directory ("http://host/repo/") ends with the empty segment. The
\* location replaces the last segment of the base; an empty location leaves
\* the base as it is.
EmptySegment == <<"", 0>>
urljoin(base, href) ==
    IF href = <<>> THEN base ELSE SubSeq(base, 1, Len(base) - 1) \o href

\* remote.url, here the url of a directory
RemoteUrl == << <<"remote", 0>>, EmptySegment >>

\* remote.url joined with the (empty) url_path of the run
remote_url == urljoin(RemoteUrl, <<>>)

\* record.location_href of an index record. Locations are interchangeable
\* names: an update-metadata entry points at a location an earlier entry
\* used, or at the next unused one.
Hrefs(type, used) ==
    IF type \in Range(UPDATE_REPODATA)
    THEN {<< <<type, n>> >> : n \in 1..Min(used + 1, NumUpdateHrefs)}
    ELSE {<< <<type, 0>> >>}

NoResult == [url |-> <<>>, state |-> "pending"]

ProgressBar == [state |-> "waiting", total |-> 0, done |-> 0]

(***************************************************************************)
(* RpmFirstStage.parse_repodata                                            *)
(* A package-metadata file is the sequence of the package ids of its       *)
(* <package> entries; the result is the dict pkgId -> package in insertion *)
(* order, each package knowing which files contributed to it.              *)
(***************************************************************************)
PkgIds == 1..MaxPkgId
RunFiles == BoundedSeq(PkgIds, MaxRunFileLen)

HasKey(d, k) == \E i \in 1..Len(d) : d[i].pkgId = k

PkgIdsOf(d) == [i \in 1..Len(d) |-> d[i].pkgId]

\* packages[pkg.pkgId] = pkg
pkgcb(d, pkg) ==
    IF HasKey(d, pkg.pkgId)
    THEN [i \in 1..Len(d) |-> IF d[i].pkgId = pkg.pkgId THEN pkg ELSE d[i]]
    ELSE Append(d, pkg)

\* newpkgcb returning a new package for a pkgId the dict does not hold
newpkgcb_NewPackage(d, pkgId, field) ==
    IF \E i \in 1..Len(d) : d[i].pkgId = pkgId
    THEN [i \in 1..Len(d) |->
            IF d[i].pkgId = pkgId THEN [d[i] EXCEPT ![field] = TRUE] ELSE d[i]]
    ELSE Append(d, [pkgId |-> pkgId, files |-> field = "files",
                    changelogs |-> field = "changelogs"])

\* return packages.get(pkgId, None): the parsed data is added to that package
newpkgcb(d, pkgId, field) ==
    [i \in 1..Len(d) |->
        IF d[i].pkgId = pkgId THEN [d[i] EXCEPT ![field] = TRUE] ELSE d[i]]

RECURSIVE xml_parse_primary(_, _)
xml_parse_primary(file, d) ==
    IF file = <<>> THEN d
    ELSE xml_parse_primary(Tail(file),
            pkgcb(d, [pkgId |-> Head(file), files |-> FALSE, changelogs |-> FALSE]))

RECURSIVE xml_parse_newpkg(_, _, _)
xml_parse_newpkg(file, d, field) ==
    IF file = <<>> THEN d
    ELSE xml_parse_newpkg(Tail(file), newpkgcb(d, Head(file), field), field)

parse_repodata(primary, filelists, other) ==
    xml_parse_newpkg(other,
        xml_parse_newpkg(filelists, xml_parse_primary(primary, <<>>), "files"),
        "changelogs")

\* the package ids, in order, of every dict parse_repodata can return for
\* the package-metadata files a run may download
RunParseResults ==
    {PkgIdsOf(parse_repodata(primary, filelists, other)) :
        primary \in RunFiles, filelists \in RunFiles, other \in RunFiles}

(***************************************************************************)
(* Idle values of each specification's variables                           *)
(***************************************************************************)
IdleRun ==
    /\ kickstart = FALSE
    /\ pc = "idle"
    /\ nrecords = 0
    /\ package_repodata_urls = <<>>
    /\ updateinfo_url = <<>>
    /\ downloaders = <<>>
    /\ running = <<>>
    /\ fetched = <<>>
    /\ pending = {}
    /\ done = {}
    /\ packages = <<>>
    /\ updates = <<>>
    /\ cur = 0
    /\ out = <<>>
    /\ packages_pb = ProgressBar
    /\ erratum_pb = ProgressBar
    /\ error = ""
    /\ parsed = <<>>
    /\ parse_args = <<>>
    /\ reordered = FALSE

NoKickstart == [found |-> FALSE, addons |-> <<>>, variants |-> <<>>]
NoError == [type |-> "", status |-> 0]

IdleSync ==
    /\ remote = [url |-> FALSE, policy |-> "immediate"]
    /\ spc = "idle"
    /\ namespace = 0
    /\ kickstart_data = NoKickstart
    /\ cursor = [name |-> 0, i |-> 0]
    /\ repositories = {}
    /\ fetches = <<>>
    /\ runs = <<>>
    /\ sync_error = NoError

NoTables == [collections |-> <<>>, collection_packages |-> <<>>, references |-> <<>>]

IdleSave ==
    /\ source = <<>>
    /\ run = 0
    /\ stream = <<>>
    /\ update_records = {}
    /\ collections = <<>>
    /\ collection_packages = <<>>
    /\ references = <<>>
    /\ after_first = NoTables
    /\ inserted = NoTables

IdleDedup ==
    /\ dstage = [at |-> "idle", k |-> 0]
    /\ syncs = 0
    /\ arriving = {}
    /\ content = {}
    /\ version = {}
    /\ fresh = {}

NoFiles == [primary |-> <<>>, filelists |-> <<>>, other |-> <<>>]

IdleParse ==
    /\ files = NoFiles
    /\ pstage = "idle"
    /\ extracted = <<>>
    /\ emitted = <<>>

IdleRace == workers = <<>>

NoStage == [url_path |-> <<>>, kickstart |-> FALSE, deferred_download |-> FALSE]
NoTodo == [tree |-> FALSE, packages |-> <<>>, updates |-> 0]

IdleBuild ==
    /\ address = <<>>
    /\ stage = NoStage
    /\ todo = NoTodo
    /\ nodes = <<>>

NoTreeData == [addons |-> <<>>, checksums |-> <<>>, images |-> <<>>, variants |-> <<>>]
NoRows == [Addon |-> {}, Checksum |-> {}, Image |-> {}, Variant |-> {}]

IdleTree ==
    /\ tree_data = NoTreeData
    /\ tables = NoRows
    /\ first_rows = NoRows
    /\ tstage = "idle"
    /\ tree_error = ""

IdlePipeline ==
    /\ passed = <<>>
    /\ removals = <<>>

IdleExt ==
    /\ IdleDedup
    /\ IdleParse
    /\ IdleRace
    /\ IdleBuild
    /\ IdleTree
    /\ IdlePipeline

IdleRestOfDedup ==
    /\ IdleParse
    /\ IdleRace
    /\ IdleBuild
    /\ IdleTree
    /\ IdlePipeline

IdleRestOfParse ==
    /\ IdleDedup
    /\ IdleRace
    /\ IdleBuild
    /\ IdleTree
    /\ IdlePipeline

IdleRestOfRace ==
    /\ IdleDedup
    /\ IdleParse
    /\ IdleBuild
    /\ IdleTree
    /\ IdlePipeline

IdleRestOfBuild ==
    /\ IdleDedup
    /\ IdleParse
    /\ IdleRace
    /\ IdleTree
    /\ IdlePipeline

IdleRestOfTree ==
    /\ IdleDedup
    /\ IdleParse
    /\ IdleRace
    /\ IdleBuild
    /\ IdlePipeline

IdleRestOfPipeline ==
    /\ IdleDedup
    /\ IdleParse
    /\ IdleRace
    /\ IdleBuild
    /\ IdleTree

(***************************************************************************)
(* RpmFirstStage.run                                                       *)
(***************************************************************************)
InitRun ==
    /\ kickstart \in BOOLEAN
    /\ pc = "index"
    /\ nrecords = 0
    /\ package_repodata_urls = <<>>
    /\ updateinfo_url = <<>>
    /\ downloaders = <<>>
    /\ running = <<>>
    /\ fetched = <<>>
    /\ pending = {}
    /\ done = {}
    /\ packages = <<>>
    /\ updates = <<>>
    /\ cur = 0
    /\ out = <<>>
    /\ packages_pb = ProgressBar
    /\ erratum_pb = ProgressBar
    /\ error = ""
    /\ parsed = <<>>
    /\ parse_args = <<>>
    /\ reordered = FALSE
    /\ IdleSync
    /\ IdleSave
    /\ IdleExt

DistributionTreeNode == [kind |-> "DistributionTree", id |-> 0, src |-> 0]
PackageNode(pkgId, g) == [kind |-> "Package", id |-> pkgId, src |-> g]
UpdateRecordNode(update, g) == [kind |-> "UpdateRecord", id |-> update, src |-> g]

\* result = await downloader.run() returns
FetchIndexOk ==
    /\ pc = "index"
    /\ pc' = "tree"
    /\ UNCHANGED <<kickstart, nrecords, package_repodata_urls, updateinfo_url,
                   downloaders, running, fetched, pending, done, packages,
                   updates, cur, out, packages_pb, erratum_pb, error, parsed,
                   parse_args, reordered>>
    /\ UNCHANGED <<syncVars, saveVars, extVars>>

\* result = await downloader.run() raises
FetchIndexFail ==
    /\ pc = "index"
    /\ pc' = "failed"
    /\ error' = "FetchError(repomd)"
    /\ UNCHANGED <<kickstart, nrecords, package_repodata_urls, updateinfo_url,
                   downloaders, running, fetched, pending, done, packages,
                   updates, cur, out, packages_pb, erratum_pb, parsed,
                   parse_args, reordered>>
    /\ UNCHANGED <<syncVars, saveVars, extVars>>

\* PutTree without the test of self.kickstart
PutTree_Unconditional ==
    /\ pc = "tree"
    /\ out' = Append(out, DistributionTreeNode)
    /\ pc' = "classify"
    /\ UNCHANGED <<kickstart, nrecords, package_repodata_urls, updateinfo_url,
                   downloaders, running, fetched, pending, done, packages,
                   updates, cur, packages_pb, erratum_pb, error, parsed,
                   parse_args, reordered>>
    /\ UNCHANGED <<syncVars, saveVars, extVars>>

\* if self.kickstart: await self.put(DeclarativeContent(distribution_tree))
PutTree ==
    /\ pc = "tree"
    /\ out' = IF kickstart THEN Append(out, DistributionTreeNode) ELSE out
    /\ pc' = "classify"
    /\ UNCHANGED <<kickstart, nrecords, package_repodata_urls, updateinfo_url,
                   downloaders, running, fetched, pending, done, packages,
                   updates, cur, packages_pb, erratum_pb, error, parsed,
                   parse_args, reordered>>
    /\ UNCHANGED <<syncVars, saveVars, extVars>>

\* the locations the update-metadata entries read so far point at
UsedHrefs == UNION {Range(downloaders[g]) : g \in 1..Len(downloaders)}

\* ClassifyRecord starting the fetch of an update-metadata file as soon as
\* its record is read, as with asyncio.ensure_future(downloader.run())
ClassifyRecord_EagerFetch ==
    /\ pc = "classify"
    /\ nrecords < MaxRecords
    /\ \E type \in RecordTypes : \E href \in Hrefs(type, Cardinality(UsedHrefs)) :
        /\ type \in Range(UPDATE_REPODATA) => Len(downloaders) < MaxUpdateEntries
        /\ IF type \in Range(PACKAGE_REPODATA)
           THEN /\ package_repodata_urls' =
                     [t \in DOMAIN package_repodata_urls \cup {type} |->
                        IF t = type THEN urljoin(remote_url, href)
                        ELSE package_repodata_urls[t]]
                /\ UNCHANGED <<updateinfo_url, downloaders, running, fetched>>
           ELSE IF type \in Range(UPDATE_REPODATA)
           THEN /\ updateinfo_url' = urljoin(remote_url, href)
                /\ downloaders' = Append(downloaders, <<updateinfo_url'>>)
                /\ running' = Append(running, {1})
                /\ fetched' = Append(fetched, <<NoResult>>)
                /\ UNCHANGED package_repodata_urls
           ELSE UNCHANGED <<package_repodata_urls, updateinfo_url, downloaders,
                            running, fetched>>
    /\ nrecords' = nrecords + 1
    /\ UNCHANGED <<kickstart, pc, pending, done, packages, updates, cur, out,
                   packages_pb, erratum_pb, error, parsed, parse_args,
                   reordered>>
    /\ UNCHANGED <<syncVars, saveVars, extVars>>

\* one iteration of: for record in repomd.records
ClassifyRecord ==
    /\ pc = "classify"
    /\ nrecords < MaxRecords
    /\ \E type \in RecordTypes : \E href \in Hrefs(type, Cardinality(UsedHrefs)) :
        /\ type \in Range(UPDATE_REPODATA) => Len(downloaders) < MaxUpdateEntries
        /\ IF type \in Range(PACKAGE_REPODATA)
           THEN /\ package_repodata_urls' =
                     [t \in DOMAIN package_repodata_urls \cup {type} |->
                        IF t = type THEN urljoin(remote_url, href)
                        ELSE package_repodata_urls[t]]
                /\ UNCHANGED <<updateinfo_url, downloaders>>
           ELSE IF type \in Range(UPDATE_REPODATA)
           THEN /\ updateinfo_url' = urljoin(remote_url, href)
                /\ downloaders' = Append(downloaders, <<updateinfo_url'>>)
                /\ UNCHANGED package_repodata_urls
           ELSE UNCHANGED <<package_repodata_urls, updateinfo_url, downloaders>>
    /\ nrecords' = nrecords + 1
    /\ UNCHANGED <<kickstart, pc, running, fetched, pending, done, packages,
                   updates, cur, out, packages_pb, erratum_pb, error, parsed,
                   parse_args, reordered>>
    /\ UNCHANGED <<syncVars, saveVars, extVars>>

\* package_repodata_urls[repodata_type] raises KeyError
KeyError(d, k) == k \notin DOMAIN d

\* CreateDownloaders skipping the types the index does not list, as with
\* if repodata_type in package_repodata_urls
CreateDownloaders_SkipMissing ==
    /\ pc = "classify"
    /\ downloaders' = Append(downloaders,
            SelectSeq(
                [i \in 1..Len(PACKAGE_REPODATA) |->
                    IF KeyError(package_repodata_urls, PACKAGE_REPODATA[i])
                    THEN <<>>
                    ELSE package_repodata_urls[PACKAGE_REPODATA[i]]],
                LAMBDA u : u # <<>>))
    /\ running' = [g \in 1..Len(downloaders') |-> 1..Len(downloaders'[g])]
    /\ fetched' = [g \in 1..Len(downloaders') |->
                      [k \in 1..Len(downloaders'[g]) |-> NoResult]]
    /\ pending' = 1..Len(downloaders')
    /\ pc' = "wait"
    /\ nrecords' = 0
    /\ UNCHANGED <<kickstart, package_repodata_urls, updateinfo_url, done,
                   packages, updates, cur, out, packages_pb, erratum_pb, error,
                   parsed, parse_args, reordered>>
    /\ UNCHANGED <<syncVars, saveVars, extVars>>

\* the end of the loop over the records, the loop over PACKAGE_REPODATA,
\* downloaders.append(package_repodata_downloaders) and the gather()s
CreateDownloaders ==
    /\ pc = "classify"
    /\ IF \E i \in 1..Len(PACKAGE_REPODATA) :
            KeyError(package_repodata_urls, PACKAGE_REPODATA[i])
       THEN /\ pc' = "failed"
            /\ error' = "KeyError"
            /\ UNCHANGED <<downloaders, running, fetched, pending>>
       ELSE /\ downloaders' = Append(downloaders,
                    [i \in 1..Len(PACKAGE_REPODATA) |->
                        package_repodata_urls[PACKAGE_REPODATA[i]]])
            /\ running' = [g \in 1..Len(downloaders') |->
                              1..Len(downloaders'[g])]
            /\ fetched' = [g \in 1..Len(downloaders') |->
                              [k \in 1..Len(downloaders'[g]) |-> NoResult]]
            /\ pending' = 1..Len(downloaders')
            /\ pc' = "wait"
            /\ UNCHANGED error
    /\ nrecords' = 0
    /\ UNCHANGED <<kickstart, package_repodata_urls, updateinfo_url, done,
                   packages, updates, cur, out, packages_pb, erratum_pb, parsed,
                   parse_args, reordered>>
    /\ UNCHANGED <<syncVars, saveVars, extVars>>

\* a gather future that keeps exceptions as results and never raises, as
\* with return_exceptions=True
GroupFailed_ReturnExceptions(g) == FALSE

\* the future of asyncio.gather(*downloaders_group): it raises as soon as one
\* awaitable raises and returns once every awaitable has returned
GroupFailed(g) == \E k \in 1..Len(fetched[g]) : fetched[g][k].state = "failed"
GroupOk(g) == \A k \in 1..Len(fetched[g]) : fetched[g][k].state = "ok"
GroupComplete(g) == GroupFailed(g) \/ GroupOk(g)

\* the gather futures exist: the fetches of the groups are scheduled
FetchStarted == running # <<>> \/ fetched # <<>>

\* the run() coroutine is suspended in wait() or in put()
Suspended == pc \in {"wait", "emit_pkg", "emit_upd"}

\* gather_store keeping the results in the order the awaitables finish
gather_store_AsCompleted(results, k, r) ==
    LET first == CHOOSE i \in 1..Len(results) :
                    /\ results[i].state = "pending"
                    /\ \A j \in 1..(i - 1) : results[j].state # "pending"
    IN [results EXCEPT ![first] = r]

\* asyncio.gather keeps the result of the k-th awaitable at position k
gather_store(results, k, r) == [results EXCEPT ![k] = r]

\* one downloader.run() of a group returns
FetchOk ==
    /\ Suspended
    /\ \E g \in 1..Len(fetched) : \E k \in running[g] :
        /\ ~GroupComplete(g)
        /\ fetched' = [fetched EXCEPT ![g] =
              gather_store(@, k, [url |-> downloaders[g][k], state |-> "ok"])]
        /\ running' = [running EXCEPT ![g] = @ \ {k}]
        /\ reordered' = (reordered \/ \E j \in running[g] : j < k)
    /\ UNCHANGED <<kickstart, pc, nrecords, package_repodata_urls,
                   updateinfo_url, downloaders, pending, done, packages,
                   updates, cur, out, packages_pb, erratum_pb, error, parsed,
                   parse_args>>
    /\ UNCHANGED <<syncVars, saveVars, extVars>>

\* one downloader.run() of a group raises
FetchFail ==
    /\ Suspended
    /\ \E g \in 1..Len(fetched) : \E k \in running[g] :
        /\ ~GroupComplete(g)
        /\ fetched' = [fetched EXCEPT ![g] =
              gather_store(@, k, [url |-> downloaders[g][k], state |-> "failed"])]
        /\ running' = [running EXCEPT ![g] = @ \ {k}]
        /\ reordered' = (reordered \/ \E j \in running[g] : j < k)
    /\ UNCHANGED <<kickstart, pc, nrecords, package_repodata_urls,
                   updateinfo_url, downloaders, pending, done, packages,
                   updates, cur, out, packages_pb, erratum_pb, error, parsed,
                   parse_args>>
    /\ UNCHANGED <<syncVars, saveVars, extVars>>

\* wait_ready with return_when=asyncio.ALL_COMPLETED
wait_ready_AllCompleted(p) == \A g \in p : GroupComplete(g)

\* asyncio.wait(p, return_when=asyncio.FIRST_COMPLETED) returns
wait_ready(p) == \E g \in p : GroupComplete(g)

\* Wait keeping the old pending set, as with
\* done, _ = await asyncio.wait(pending, return_when=FIRST_COMPLETED)
Wait_KeepPending ==
    /\ pc = "wait"
    /\ wait_ready(pending)
    /\ done' = {g \in pending : GroupComplete(g)}
    /\ pending' = pending
    /\ pc' = "for_done"
    /\ UNCHANGED <<kickstart, nrecords, package_repodata_urls, updateinfo_url,
                   downloaders, running, fetched, packages, updates, cur, out,
                   packages_pb, erratum_pb, error, parsed, parse_args,
                   reordered>>
    /\ UNCHANGED <<syncVars, saveVars, extVars>>

\* done, pending = await asyncio.wait(pending, return_when=FIRST_COMPLETED)
Wait ==
    /\ pc = "wait"
    /\ wait_ready(pending)
    /\ done' = {g \in pending : GroupComplete(g)}
    /\ pending' = pending \ done'
    /\ pc' = "for_done"
    /\ UNCHANGED <<kickstart, nrecords, package_repodata_urls, updateinfo_url,
                   downloaders, running, fetched, packages, updates, cur, out,
                   packages_pb, erratum_pb, error, parsed, parse_args,
                   reordered>>
    /\ UNCHANGED <<syncVars, saveVars, extVars>>

\* which branch of the if/elif a completed group's results take
Branch(results) ==
    IF results[1].url = package_repodata_urls["primary"] THEN "package"
    ELSE IF updateinfo_url = <<>> THEN "unbound"
    ELSE IF results[1].url = updateinfo_url THEN "update"
    ELSE "none"

\* one iteration of: for downloader in done, up to the first put()
TakeDone ==
    /\ pc = "for_done"
    /\ \E g \in done :
        /\ done' = done \ {g}
        /\ IF GroupFailed(g)
           THEN \* downloader.result() raises
                /\ pc' = "failed"
                /\ error' = "FetchError(repodata)"
                /\ UNCHANGED <<packages, updates, packages_pb, erratum_pb,
                               parsed, parse_args>>
           ELSE IF Branch(fetched[g]) = "package"
           THEN IF Len(fetched[g]) < Len(PACKAGE_REPODATA)
                THEN \* results[1] or results[2] raises IndexError
                     /\ pc' = "failed"
                     /\ error' = "IndexError"
                     /\ UNCHANGED <<packages, updates, packages_pb, erratum_pb,
                                    parsed, parse_args>>
                ELSE \E result \in RunParseResults :
                     /\ parse_args' = <<fetched[g][1].url, fetched[g][2].url,
                                        fetched[g][3].url>>
                     /\ packages' = result
                     /\ parsed' = (g :> Len(packages')) @@ parsed
                     /\ packages_pb' = [packages_pb EXCEPT
                            !.total = Len(packages'), !.state = "running"]
                     /\ pc' = IF packages' = <<>> THEN "for_done" ELSE "emit_pkg"
                     /\ UNCHANGED <<updates, erratum_pb, error>>
           ELSE IF Branch(fetched[g]) = "update"
           THEN \E n \in 0..MaxUpdates :
                     /\ updates' = [i \in 1..n |-> i]
                     /\ parsed' = (g :> n) @@ parsed
                     /\ erratum_pb' = [erratum_pb EXCEPT
                            !.total = n, !.state = "running"]
                     /\ pc' = IF n = 0 THEN "for_done" ELSE "emit_upd"
                     /\ UNCHANGED <<packages, packages_pb, parse_args, error>>
           ELSE IF Branch(fetched[g]) = "unbound"
           THEN \* the elif reads a local that was never bound
                /\ pc' = "failed"
                /\ error' = "UnboundLocalError"
                /\ UNCHANGED <<packages, updates, packages_pb, erratum_pb,
                               parsed, parse_args>>
           ELSE \* neither branch: the results are dropped
                /\ pc' = "for_done"
                /\ UNCHANGED <<packages, updates, packages_pb, erratum_pb,
                               parsed, parse_args, error>>
        /\ cur' = IF pc' \in {"emit_pkg", "emit_upd"} THEN g ELSE 0
    /\ UNCHANGED <<kickstart, nrecords, package_repodata_urls, updateinfo_url,
                   downloaders, running, fetched, pending, out, reordered>>
    /\ UNCHANGED <<syncVars, saveVars, extVars>>

\* one iteration of: for pkg in packages.values(), ending in await self.put(dc)
EmitPackage ==
    /\ pc = "emit_pkg"
    /\ out' = Append(out, PackageNode(Head(packages), cur))
    /\ packages_pb' = [packages_pb EXCEPT !.done = @ + 1]
    /\ packages' = Tail(packages)
    /\ pc' = IF packages' = <<>> THEN "for_done" ELSE "emit_pkg"
    /\ cur' = IF packages' = <<>> THEN 0 ELSE cur
    /\ UNCHANGED <<kickstart, nrecords, package_repodata_urls, updateinfo_url,
                   downloaders, running, fetched, pending, done, updates,
                   erratum_pb, error, parsed, parse_args, reordered>>
    /\ UNCHANGED <<syncVars, saveVars, extVars>>

\* one iteration of: for update in updates, ending in await self.put(dc)
EmitUpdate ==
    /\ pc = "emit_upd"
    /\ out' = Append(out, UpdateRecordNode(Head(updates), cur))
    /\ erratum_pb' = [erratum_pb EXCEPT !.done = @ + 1]
    /\ updates' = Tail(updates)
    /\ pc' = IF updates' = <<>> THEN "for_done" ELSE "emit_upd"
    /\ cur' = IF updates' = <<>> THEN 0 ELSE cur
    /\ UNCHANGED <<kickstart, nrecords, package_repodata_urls, updateinfo_url,
                   downloaders, running, fetched, pending, done, packages,
                   packages_pb, error, parsed, parse_args, reordered>>
    /\ UNCHANGED <<syncVars, saveVars, extVars>>

\* the for loop over done is exhausted and pending is not empty
EndFor ==
    /\ pc = "for_done"
    /\ done = {}
    /\ pending # {}
    /\ pc' = "wait"
    /\ UNCHANGED <<kickstart, nrecords, package_repodata_urls, updateinfo_url,
                   downloaders, running, fetched, pending, done, packages,
                   updates, cur, out, packages_pb, erratum_pb, error, parsed,
                   parse_args, reordered>>
    /\ UNCHANGED <<syncVars, saveVars, extVars>>

\* while pending ends: both progress bars are set to 'completed' and saved
Finish ==
    /\ pc = "for_done"
    /\ done = {}
    /\ pending = {}
    /\ packages_pb' = [packages_pb EXCEPT !.state = "completed"]
    /\ erratum_pb' = [erratum_pb EXCEPT !.state = "completed"]
    /\ pc' = "completed"
    /\ UNCHANGED <<kickstart, nrecords, package_repodata_urls, updateinfo_url,
                   downloaders, running, fetched, pending, done, packages,
                   updates, cur, out, error, parsed, parse_args, reordered>>
    /\ UNCHANGED <<syncVars, saveVars, extVars>>

NextRun ==
    \/ FetchIndexOk
    \/ FetchIndexFail
    \/ PutTree
    \/ ClassifyRecord
    \/ CreateDownloaders
    \/ FetchOk
    \/ FetchFail
    \/ Wait
    \/ TakeDone
    \/ EmitPackage
    \/ EmitUpdate
    \/ EndFor
    \/ Finish

SpecRun == InitRun /\ [][NextRun]_vars

\* the event loop runs every task that can run, and every fetch returns or
\* raises in the end
SpecRunLive == InitRun /\ [][NextRun]_vars /\ WF_vars(NextRun)

\* the run when no fetch raises
NextRunOk ==
    \/ FetchIndexOk
    \/ PutTree
    \/ ClassifyRecord
    \/ CreateDownloaders
    \/ FetchOk
    \/ Wait
    \/ TakeDone
    \/ EmitPackage
    \/ EmitUpdate
    \/ EndFor
    \/ Finish

\* every issued fetch returns in the end, and the event loop runs every
\* task that can run
SpecRunOk == InitRun /\ [][NextRunOk]_vars /\ WF_vars(NextRunOk)

(***************************************************************************)
(* get_kickstart_data and synchronize                                      *)
(***************************************************************************)
Policies == {"immediate", "on_demand"}
IMMEDIATE == "immediate"

\* the outcomes of downloader.fetch(): success, or ClientResponseError
Statuses == {HTTP_OK, NOT_FOUND, HTTP_ERROR}

\* namespaces with the two names exchanged
namespaces_Exchanged == << <<"treeinfo", 0>>, <<".treeinfo", 0>> >>

\* namespaces = [".treeinfo", "treeinfo"]
namespaces == << <<".treeinfo", 0>>, <<"treeinfo", 0>> >>

\* resource_names with the two names exchanged
resource_names_Exchanged == <<"variants", "addons">>

resource_names == <<"addons", "variants">>

\* the main repository, and the pk of the next Repository(name=name).save()
MainRepository == 0
NewPk(repos) == Cardinality(repos) + 1

\* an addon or variant of KickstartData.to_dict(): resource["packages"] is
\* the sub-path of the sub-tree
Resource(name, i) == [packages |-> << <<name, i>> >>, repository_id |-> 0]

\* the positions visited by
\*   for resource_name in resource_names: for resource in kickstart[resource_name]
RECURSIVE Positions(_, _)
Positions(kd, names) ==
    IF names = <<>> THEN <<>>
    ELSE [i \in 1..Len(kd[Head(names)]) |-> [name |-> Head(names), i |-> i]]
         \o Positions(kd, Tail(names))

\* the loop position after the one at index n (0: before the first)
Advance(kd, n) ==
    IF n < Len(Positions(kd, resource_names))
    THEN Positions(kd, resource_names)[n + 1]
    ELSE [name |-> "", i |-> 0]

IndexOf(kd, c) ==
    CHOOSE n \in 1..Len(Positions(kd, resource_names)) :
        Positions(kd, resource_names)[n] = c

AtEnd(c) == c.name = ""

\* deferred_download = (remote.policy != Remote.IMMEDIATE)
deferred_download == remote.policy # IMMEDIATE

InitSync ==
    /\ remote \in [url : BOOLEAN, policy : Policies]
    /\ spc = "start"
    /\ namespace = 0
    /\ kickstart_data = NoKickstart
    /\ cursor = [name |-> "", i |-> 0]
    /\ repositories = {}
    /\ fetches = <<>>
    /\ runs = <<>>
    /\ sync_error = NoError
    /\ IdleRun
    /\ IdleSave
    /\ IdleExt

\* url_missing without the test
url_missing_Unchecked(r) == FALSE

\* if not remote.url
url_missing(r) == ~r.url

\* synchronize up to the call of get_kickstart_data
CheckUrl ==
    /\ spc = "start"
    /\ IF url_missing(remote)
       THEN /\ spc' = "failed"
            /\ sync_error' = [type |-> "ValueError", status |-> 0]
            /\ UNCHANGED namespace
       ELSE /\ spc' = "treeinfo"
            /\ namespace' = 1
            /\ UNCHANGED sync_error
    /\ UNCHANGED <<remote, kickstart_data, cursor, repositories, fetches, runs>>
    /\ UNCHANGED <<runVars, saveVars, extVars>>

\* where synchronize goes once the loops are at position c
AfterPosition(c) == IF AtEnd(c) THEN "primary" ELSE "subtree_new"

\* one iteration of get_kickstart_data's loop over the namespaces, and, when
\* the loop ends, the return and the test of: if kickstart
ProbeTreeInfo ==
    /\ spc = "treeinfo"
    /\ \E status \in Statuses :
        /\ fetches' = Append(fetches,
               [url |-> urljoin(RemoteUrl, <<namespaces[namespace]>>),
                status |-> status])
        /\ IF status = NOT_FOUND
           THEN \* continue
                /\ IF namespace < Len(namespaces)
                   THEN /\ namespace' = namespace + 1
                        /\ UNCHANGED spc
                   ELSE /\ namespace' = 0
                        /\ spc' = "primary"
                /\ UNCHANGED <<kickstart_data, cursor, sync_error>>
           ELSE IF status # HTTP_OK
           THEN \* raise
                /\ spc' = "failed"
                /\ sync_error' = [type |-> "ClientResponseError", status |-> status]
                /\ UNCHANGED <<namespace, kickstart_data, cursor>>
           ELSE \* KickstartData(kickstart_parsed).to_dict(); break
                \E na \in 0..MaxAddons, nv \in 1..MaxVariants :
                    /\ kickstart_data' =
                          [found |-> TRUE,
                           addons |-> [i \in 1..na |-> Resource("addons", i)],
                           variants |-> [i \in 1..nv |-> Resource("variants", i)]]
                    /\ cursor' = Advance(kickstart_data', 0)
                    /\ spc' = AfterPosition(cursor')
                    /\ namespace' = 0
                    /\ UNCHANGED sync_error
    /\ UNCHANGED <<remote, repositories, runs>>
    /\ UNCHANGED <<runVars, saveVars, extVars>>

\* NewRepository without resource["repository_id"] = str(new_repository.pk)
NewRepository_Unrecorded ==
    /\ spc = "subtree_new"
    /\ repositories' = repositories \cup {NewPk(repositories)}
    /\ spc' = "subtree_probe"
    /\ UNCHANGED <<remote, namespace, kickstart_data, cursor, fetches, runs,
                   sync_error>>
    /\ UNCHANGED <<runVars, saveVars, extVars>>

\* new_repository.save(); resource["repository_id"] = str(new_repository.pk)
NewRepository ==
    /\ spc = "subtree_new"
    /\ repositories' = repositories \cup {NewPk(repositories)}
    /\ kickstart_data' = [kickstart_data EXCEPT
          ![cursor.name][cursor.i].repository_id = NewPk(repositories)]
    /\ spc' = "subtree_probe"
    /\ UNCHANGED <<remote, namespace, cursor, fetches, runs, sync_error>>
    /\ UNCHANGED <<runVars, saveVars, extVars>>

CurrentResource == kickstart_data[cursor.name][cursor.i]

\* swallowed without the test of the status: every error raises
swallowed_None(status) == FALSE

\* swallowed without the test of the status: every error continues
swallowed_All(status) == TRUE

\* except ClientResponseError as exc: if 404 == exc.status: continue
swallowed(status) == status = NOT_FOUND

\* downloader.fetch() of the sub-tree's repomd.xml
ProbeSubTree ==
    /\ spc = "subtree_probe"
    /\ \E status \in Statuses :
        /\ fetches' = Append(fetches,
               [url |-> urljoin(RemoteUrl,
                           CurrentResource.packages \o << <<"repodata/repomd.xml", 0>> >>),
                status |-> status])
        /\ IF status = HTTP_OK
           THEN /\ spc' = "subtree_run"
                /\ UNCHANGED <<cursor, sync_error>>
           ELSE IF swallowed(status)
           THEN /\ cursor' = Advance(kickstart_data, IndexOf(kickstart_data, cursor))
                /\ spc' = AfterPosition(cursor')
                /\ UNCHANGED sync_error
           ELSE /\ spc' = "failed"
                /\ sync_error' = [type |-> "ClientResponseError", status |-> status]
                /\ UNCHANGED cursor
    /\ UNCHANGED <<remote, namespace, kickstart_data, repositories, runs>>
    /\ UNCHANGED <<runVars, saveVars, extVars>>

\* a dv.create() call: the first stage it was built with and its repository
PipelineRun(repository, url_path, ks) ==
    [repository |-> repository, url_path |-> url_path, kickstart |-> ks,
     deferred_download |-> deferred_download, state |-> "running"]

\* StartSubTreeRun building the version of the main repository, as with
\* RpmDeclarativeVersion(..., repository=repository, ...)
StartSubTreeRun_MainRepository ==
    /\ spc = "subtree_run"
    /\ runs' = Append(runs, PipelineRun(MainRepository,
                                        CurrentResource.packages, FALSE))
    /\ spc' = "subtree_create"
    /\ UNCHANGED <<remote, namespace, kickstart_data, cursor, repositories,
                   fetches, sync_error>>
    /\ UNCHANGED <<runVars, saveVars, extVars>>

\* StartSubTreeRun giving the kickstart data to the first stage, as with
\* RpmFirstStage(remote, deferred_download, kickstart=kickstart,
\* url_path=resource["packages"])
StartSubTreeRun_WithKickstart ==
    /\ spc = "subtree_run"
    /\ runs' = Append(runs, PipelineRun(CurrentResource.repository_id,
                                        CurrentResource.packages,
                                        kickstart_data.found))
    /\ spc' = "subtree_create"
    /\ UNCHANGED <<remote, namespace, kickstart_data, cursor, repositories,
                   fetches, sync_error>>
    /\ UNCHANGED <<runVars, saveVars, extVars>>

\* RpmFirstStage(remote, deferred_download, url_path=resource["packages"]),
\* RpmDeclarativeVersion(..., repository=new_repository, ...), dv.create() is
\* entered
StartSubTreeRun ==
    /\ spc = "subtree_run"
    /\ runs' = Append(runs, PipelineRun(CurrentResource.repository_id,
                                        CurrentResource.packages, FALSE))
    /\ spc' = "subtree_create"
    /\ UNCHANGED <<remote, namespace, kickstart_data, cursor, repositories,
                   fetches, sync_error>>
    /\ UNCHANGED <<runVars, saveVars, extVars>>

\* dv.create() of a sub-tree returns
SubTreeRunOk ==
    /\ spc = "subtree_create"
    /\ runs' = [runs EXCEPT ![Len(runs)].state = "ok"]
    /\ cursor' = Advance(kickstart_data, IndexOf(kickstart_data, cursor))
    /\ spc' = AfterPosition(cursor')
    /\ UNCHANGED <<remote, namespace, kickstart_data, repositories, fetches,
                   sync_error>>
    /\ UNCHANGED <<runVars, saveVars, extVars>>

\* dv.create() of a sub-tree raises
SubTreeRunFail ==
    /\ spc = "subtree_create"
    /\ runs' = [runs EXCEPT ![Len(runs)].state = "failed"]
    /\ spc' = "failed"
    /\ sync_error' = [type |-> "PipelineError", status |-> 0]
    /\ UNCHANGED <<remote, namespace, kickstart_data, cursor, repositories,
                   fetches>>
    /\ UNCHANGED <<runVars, saveVars, extVars>>

\* StartPrimaryRun building the first stage without the kickstart data, as
\* the first stage of a sub-tree is built
StartPrimaryRun_NoKickstart ==
    /\ spc = "primary"
    /\ runs' = Append(runs, PipelineRun(MainRepository, <<>>, FALSE))
    /\ spc' = "primary_create"
    /\ UNCHANGED <<remote, namespace, kickstart_data, cursor, repositories,
                   fetches, sync_error>>
    /\ UNCHANGED <<runVars, saveVars, extVars>>

\* RpmFirstStage(remote, deferred_download, kickstart=kickstart),
\* RpmDeclarativeVersion(..., repository=repository, ...), dv.create() is entered
StartPrimaryRun ==
    /\ spc = "primary"
    /\ runs' = Append(runs, PipelineRun(MainRepository, <<>>, kickstart_data.found))
    /\ spc' = "primary_create"
    /\ UNCHANGED <<remote, namespace, kickstart_data, cursor, repositories,
                   fetches, sync_error>>
    /\ UNCHANGED <<runVars, saveVars, extVars>>

\* the last dv.create() returns, and synchronize with it
PrimaryRunOk ==
    /\ spc = "primary_create"
    /\ runs' = [runs EXCEPT ![Len(runs)].state = "ok"]
    /\ spc' = "done"
    /\ UNCHANGED <<remote, namespace, kickstart_data, cursor, repositories,
                   fetches, sync_error>>
    /\ UNCHANGED <<runVars, saveVars, extVars>>

\* the last dv.create() raises
PrimaryRunFail ==
    /\ spc = "primary_create"
    /\ runs' = [runs EXCEPT ![Len(runs)].state = "failed"]
    /\ spc' = "failed"
    /\ sync_error' = [type |-> "PipelineError", status |-> 0]
    /\ UNCHANGED <<remote, namespace, kickstart_data, cursor, repositories,
                   fetches>>
    /\ UNCHANGED <<runVars, saveVars, extVars>>

NextSync ==
    \/ CheckUrl
    \/ ProbeTreeInfo
    \/ NewRepository
    \/ ProbeSubTree
    \/ StartSubTreeRun
    \/ SubTreeRunOk
    \/ SubTreeRunFail
    \/ StartPrimaryRun
    \/ PrimaryRunOk
    \/ PrimaryRunFail

SpecSync == InitSync /\ [][NextSync]_vars

\* the DistributionTree unit the first stage of a run puts: one when it was
\* given kickstart data, none otherwise
tree_units(r) == IF r.kickstart THEN {DistributionTreeNode} ELSE {}

\* DeclarativeVersion.create(): a run that returns has committed one new
\* version of its repository, holding the units of its stream; a run that
\* raises commits none. The versions of a repository, oldest first:
versions(repository) ==
    SelectSeq(runs, LAMBDA r : r.repository = repository /\ r.state = "ok")

\* repo['_latest_version_href']: the number of the latest version, 0 for None
latest_version(repository) == Len(versions(repository))

\* get_content(repo): the tree units present in the latest version
content_of(repository) ==
    UNION {tree_units(versions(repository)[n]) :
              n \in 1..latest_version(repository)}

\* get_added_content(repo): the units the latest version added
added_content(repository) ==
    IF latest_version(repository) = 0 THEN {}
    ELSE tree_units(versions(repository)[latest_version(repository)])
         \ UNION {tree_units(versions(repository)[n]) :
                     n \in 1..(latest_version(repository) - 1)}

(***************************************************************************)
(* RpmContentSaver: the content-persistence stage over the batches of two  *)
(* successive syncs of the same update-metadata                            *)
(***************************************************************************)
\* what an update record of the source carries: its collections, the
\* packages of each collection, its references
Shapes ==
    {sh \in [ncoll : 0..MaxCollections, npkg : 0..MaxCollectionPackages,
             nref : 0..MaxReferences] : sh.ncoll = 0 => sh.npkg = 0}

SourceRecord(id, sh) ==
    [id |-> id, ncoll |-> sh.ncoll, npkg |-> sh.npkg, nref |-> sh.nref]

\* the update records a remote lists: an entry repeats an earlier record or
\* is a new one (record ids are interchangeable names)
RECURSIVE SourcesOfLen(_)
SourcesOfLen(n) ==
    IF n = 0 THEN {<<>>}
    ELSE UNION {{Append(src, r) :
                    r \in Range(src) \cup
                          {SourceRecord(Cardinality(Range(src)) + 1, sh) : sh \in Shapes}} :
                src \in SourcesOfLen(n - 1)}

Sources == UNION {SourcesOfLen(n) : n \in 1..MaxSourceLen}

\* future_relations of RpmFirstStage.run: a collection gets a key only when
\* a package is appended to its list
future_relations(update) ==
    [collections |->
        [c \in 1..(IF update.npkg > 0 THEN update.ncoll ELSE 0) |->
            [name |-> c, packages |-> [k \in 1..update.npkg |-> k]]],
     references |-> [k \in 1..update.nref |-> k]]

\* dc = DeclarativeContent(content=update_record); dc.extra_data = future_relations
DeclarativeContent(update) ==
    [kind |-> "UpdateRecord", content |-> update,
     extra_data |-> future_relations(update)]

Nodes(src) == [i \in 1..Len(src) |-> DeclarativeContent(src[i])]

Tables ==
    [collections |-> collections, collection_packages |-> collection_packages,
     references |-> references]

RowsOf(table, update) == SelectSeq(table, LAMBDA row : row.update_record = update)

\* relations_exist without the two counts
relations_exist_Unchecked(update) == FALSE

\* update_record.collections.count() or update_record.references.count()
relations_exist(update) ==
    \/ Len(RowsOf(collections, update)) # 0
    \/ Len(RowsOf(references, update)) # 0

\* the rows one node adds to the three lists of _post_save
RowsToSave(dc) ==
    IF dc.kind # "UpdateRecord" \/ relations_exist(dc.content)
    THEN NoTables
    ELSE LET colls == dc.extra_data.collections
             refs == dc.extra_data.references
             RECURSIVE Packages(_)
             Packages(c) ==
                 IF c > Len(colls) THEN <<>>
                 ELSE [k \in 1..Len(colls[c].packages) |->
                          [update_record |-> dc.content,
                           collection |-> colls[c].name,
                           n |-> colls[c].packages[k]]] \o Packages(c + 1)
         IN [collections |->
                [c \in 1..Len(colls) |->
                    [update_record |-> dc.content, name |-> colls[c].name]],
             collection_packages |-> Packages(1),
             references |->
                [k \in 1..Len(refs) |->
                    [update_record |-> dc.content, n |-> refs[k]]]]

\* the three lists of _post_save after the loop over the batch
RECURSIVE ToSave(_)
ToSave(batch) ==
    IF batch = <<>> THEN NoTables
    ELSE LET first == RowsToSave(Head(batch))
             rest == ToSave(Tail(batch))
         IN [collections |-> first.collections \o rest.collections,
             collection_packages |->
                first.collection_packages \o rest.collection_packages,
             references |-> first.references \o rest.references]

InitSave ==
    /\ source \in Sources
    /\ run = 1
    /\ stream = Nodes(source)
    /\ update_records = {}
    /\ collections = <<>>
    /\ collection_packages = <<>>
    /\ references = <<>>
    /\ after_first = NoTables
    /\ inserted = NoTables
    /\ IdleRun
    /\ IdleSync
    /\ IdleExt

\* ContentSaver.run on one batch: the content units not yet persisted are
\* saved, then _post_save(batch) bulk-creates the three lists
SaveBatch ==
    /\ run \in {1, 2}
    /\ stream # <<>>
    /\ \E n \in 1..Min(MaxBatch, Len(stream)) :
        LET batch == SubSeq(stream, 1, n) IN
        /\ update_records' = update_records \cup {batch[i].content : i \in 1..n}
        /\ inserted' = ToSave(batch)
        /\ collections' = collections \o inserted'.collections
        /\ collection_packages' =
              collection_packages \o inserted'.collection_packages
        /\ references' = references \o inserted'.references
        /\ stream' = SubSeq(stream, n + 1, Len(stream))
    /\ UNCHANGED <<source, run, after_first>>
    /\ UNCHANGED <<runVars, syncVars, extVars>>

\* the first sync is over; the same source is synchronized again
EndFirstRun ==
    /\ run = 1
    /\ stream = <<>>
    /\ run' = 2
    /\ stream' = Nodes(source)
    /\ after_first' = Tables
    /\ inserted' = NoTables
    /\ UNCHANGED <<source, update_records, collections, collection_packages,
                   references>>
    /\ UNCHANGED <<runVars, syncVars, extVars>>

\* the second sync is over
EndSecondRun ==
    /\ run = 2
    /\ stream = <<>>
    /\ run' = 3
    /\ UNCHANGED <<source, stream, update_records, collections,
                   collection_packages, references, after_first, inserted>>
    /\ UNCHANGED <<runVars, syncVars, extVars>>

NextSave ==
    \/ SaveBatch
    \/ EndFirstRun
    \/ EndSecondRun

SpecSave == InitSave /\ [][NextSave]_vars

(***************************************************************************)
(* RpmFirstStage: the nodes of one run and their declarative artifacts.    *)
(* A path or location is the sequence of its segments; a leading or        *)
(* trailing "/" is an empty segment at that end.                           *)
(***************************************************************************)
\* remote.url with and without a trailing "/"
RemoteUrls == {RemoteUrl, << <<"remote", 0>> >>}

\* resource["packages"] as a tree-info file may write it
UrlPaths ==
    LET name == <<"addons", 1>> IN
    {<<name>>, <<name, EmptySegment>>, <<EmptySegment, name>>,
     <<EmptySegment, name, EmptySegment>>, << <<"variants", 1>>, name >>}

\* package.location_href of the n-th package
Locations(n) == {<< <<"rpm", n>> >>, << <<"Packages", 0>>, <<"rpm", n>> >>}

\* the location_href of the packages of one primary file
RECURSIVE LocationLists(_)
LocationLists(n) ==
    IF n = 0 THEN {<<>>}
    ELSE UNION {{Append(l, href) : href \in Locations(n)} : l \in LocationLists(n - 1)}

\* str.strip('/')
RECURSIVE strip(_)
strip(path) ==
    IF path = <<>> THEN path
    ELSE IF Head(path) = EmptySegment THEN strip(Tail(path))
    ELSE IF path[Len(path)] = EmptySegment THEN strip(SubSeq(path, 1, Len(path) - 1))
    ELSE path

\* url_path without the "/" appended
url_path_NoSlash(st) ==
    IF st.url_path # <<>> THEN strip(st.url_path) ELSE st.url_path

\* url_path = f"{self.url_path.strip('/')}/" if self.url_path else self.url_path
url_path(st) ==
    IF st.url_path # <<>> THEN strip(st.url_path) \o <<EmptySegment>>
    ELSE st.url_path

\* remote_url = urljoin(self.remote.url, url_path)
stage_remote_url(st) == urljoin(address, url_path(st))

\* os.path.basename(package.location_href)
basename(href) == <<href[Len(href)]>>

\* DeclarativeArtifact(artifact=artifact, url=url, relative_path=filename,
\*                     remote=self.remote, deferred_download=self.deferred_download)
DeclarativeArtifact(st, href) ==
    [url |-> urljoin(stage_remote_url(st), href),
     relative_path |-> basename(href),
     deferred_download |-> st.deferred_download]

\* RpmFirstStage(remote, deferred_download, url_path=..., kickstart=...)
RpmFirstStage(path, ks) ==
    [url_path |-> path, kickstart |-> ks, deferred_download |-> deferred_download]

\* the first stages synchronize builds: the one of a sub-tree, given
\* resource["packages"], and the primary one, given the kickstart data
InitBuild ==
    /\ remote \in [url : {TRUE}, policy : Policies]
    /\ spc = "idle"
    /\ namespace = 0
    /\ kickstart_data = NoKickstart
    /\ cursor = [name |-> 0, i |-> 0]
    /\ repositories = {}
    /\ fetches = <<>>
    /\ runs = <<>>
    /\ sync_error = NoError
    /\ address \in RemoteUrls
    /\ stage \in {RpmFirstStage(path, FALSE) : path \in UrlPaths}
                 \cup {RpmFirstStage(<<>>, ks) : ks \in BOOLEAN}
    /\ todo \in [tree : {TRUE},
                  packages : UNION {LocationLists(n) : n \in 0..MaxBuildPackages},
                  updates : 0..MaxBuildUpdates]
    /\ nodes = <<>>
    /\ IdleRun
    /\ IdleSave
    /\ IdleRestOfBuild

\* if self.kickstart: dc = DeclarativeContent(content=distribution_tree)
BuildTree ==
    /\ todo.tree
    /\ nodes' = IF stage.kickstart
                THEN Append(nodes, [kind |-> "DistributionTree", id |-> 0,
                                    d_artifacts |-> <<>>])
                ELSE nodes
    /\ todo' = [todo EXCEPT !.tree = FALSE]
    /\ UNCHANGED <<address, stage>>
    /\ UNCHANGED <<runVars, syncVars, saveVars, restOfBuild>>

\* dc = DeclarativeContent(content=package, d_artifacts=[da])
BuildPackage ==
    /\ ~todo.tree
    /\ todo.packages # <<>>
    /\ nodes' = Append(nodes,
            [kind |-> "Package", id |-> Head(todo.packages),
             d_artifacts |-> <<DeclarativeArtifact(stage, Head(todo.packages))>>])
    /\ todo' = [todo EXCEPT !.packages = Tail(@)]
    /\ UNCHANGED <<address, stage>>
    /\ UNCHANGED <<runVars, syncVars, saveVars, restOfBuild>>

\* dc = DeclarativeContent(content=update_record)
BuildUpdate ==
    /\ ~todo.tree
    /\ todo.updates > 0
    /\ nodes' = Append(nodes, [kind |-> "UpdateRecord", id |-> todo.updates,
                               d_artifacts |-> <<>>])
    /\ todo' = [todo EXCEPT !.updates = @ - 1]
    /\ UNCHANGED <<address, stage>>
    /\ UNCHANGED <<runVars, syncVars, saveVars, restOfBuild>>

NextBuild ==
    \/ BuildTree
    \/ BuildPackage
    \/ BuildUpdate

SpecBuild == InitBuild /\ [][NextBuild]_vars

(***************************************************************************)
(* RpmContentSaver: the rows of one distribution tree, whose node is       *)
(* processed in a first sync and again when the same remote is             *)
(* synchronized once more.                                                 *)
(***************************************************************************)
\* the kickstart data of a tree-info file with the given numbers of addons,
\* checksums, images and variants, after synchronize has set the
\* repository_id of every addon and variant to the pk of a new repository;
\* `created` repositories exist before
KickstartRows(na, nc, ni, nv, created) ==
    [addons |-> [i \in 1..na |-> [uid |-> i, repository_id |-> created + i]],
     checksums |-> [i \in 1..nc |-> [path |-> i]],
     images |-> [i \in 1..ni |-> [name |-> i]],
     variants |-> [i \in 1..nv |-> [uid |-> i, repository_id |-> created + na + i]]]

\* instance = Addon(**addon); instance.distribution_tree = distribution_tree
Instance(item) == [data |-> item, distribution_tree |-> 1]

\* the fields of a row its unique constraint covers: what the tree-info file
\* says of it and the tree, not the repository made for it by this sync
unique_key(row) ==
    [data |-> IF "repository_id" \in DOMAIN row.data
              THEN [uid |-> row.data.uid]
              ELSE row.data,
     distribution_tree |-> row.distribution_tree]

\* bulk_create surfacing unique-constraint conflicts
ignore_conflicts_Off == FALSE

\* bulk_create(..., ignore_conflicts=True)
ignore_conflicts == TRUE

\* Model.objects.bulk_create(objs, ignore_conflicts=...): the rows after it,
\* and whether it raised; a statement that raises inserts nothing
RECURSIVE bulk_create(_, _)
bulk_create(rows, objs) ==
    IF objs = <<>> THEN [rows |-> rows, raised |-> FALSE]
    ELSE IF \E row \in rows : unique_key(row) = unique_key(Head(objs))
    THEN IF ignore_conflicts THEN bulk_create(rows, Tail(objs))
         ELSE [rows |-> rows, raised |-> TRUE]
    ELSE LET rest == bulk_create(rows \cup {Head(objs)}, Tail(objs))
         IN IF rest.raised THEN [rows |-> rows, raised |-> TRUE] ELSE rest

InitTree ==
    /\ \E na \in 0..MaxAddons, nc \in 0..MaxChecksums, ni \in 0..MaxImages,
          nv \in 1..MaxVariants :
          tree_data = KickstartRows(na, nc, ni, nv, 0)
    /\ tables = NoRows
    /\ first_rows = NoRows
    /\ tstage = "first"
    /\ tree_error = ""
    /\ IdleRun
    /\ IdleSync
    /\ IdleSave
    /\ IdleRestOfTree

\* _handle_distribution_tree(declarative_content)
HandleDistributionTree ==
    /\ tstage \in {"first", "second"}
    /\ LET objs(name) == [i \in 1..Len(tree_data[name]) |->
                             Instance(tree_data[name][i])]
           addons == bulk_create(tables.Addon, objs("addons"))
           checksums == bulk_create(tables.Checksum, objs("checksums"))
           images == bulk_create(tables.Image, objs("images"))
           variants == bulk_create(tables.Variant, objs("variants"))
       IN IF addons.raised
          THEN /\ tree_error' = "IntegrityError"
               /\ UNCHANGED tables
          ELSE IF checksums.raised
          THEN /\ tree_error' = "IntegrityError"
               /\ tables' = [tables EXCEPT !.Addon = addons.rows]
          ELSE IF images.raised
          THEN /\ tree_error' = "IntegrityError"
               /\ tables' = [tables EXCEPT !.Addon = addons.rows,
                                           !.Checksum = checksums.rows]
          ELSE IF variants.raised
          THEN /\ tree_error' = "IntegrityError"
               /\ tables' = [tables EXCEPT !.Addon = addons.rows,
                                           !.Checksum = checksums.rows,
                                           !.Image = images.rows]
          ELSE /\ tables' = [Addon |-> addons.rows, Checksum |-> checksums.rows,
                             Image |-> images.rows, Variant |-> variants.rows]
               /\ UNCHANGED tree_error
    /\ tstage' = IF tree_error' # "" THEN "failed"
                 ELSE IF tstage = "first" THEN "resync" ELSE "done"
    /\ first_rows' = IF tstage = "first" THEN tables' ELSE first_rows
    /\ UNCHANGED tree_data
    /\ UNCHANGED <<runVars, syncVars, saveVars, restOfTree>>

\* the same tree is met again: its node is processed once more as it is, or
\* the remote is synchronized again, which reads the same tree-info file and
\* makes a new repository for every addon and variant
Resync ==
    /\ tstage = "resync"
    /\ \E again \in BOOLEAN :
          tree_data' =
             IF again
             THEN KickstartRows(Len(tree_data.addons), Len(tree_data.checksums),
                                Len(tree_data.images), Len(tree_data.variants),
                                Len(tree_data.addons) + Len(tree_data.variants))
             ELSE tree_data
    /\ tstage' = "second"
    /\ UNCHANGED <<tables, first_rows, tree_error>>
    /\ UNCHANGED <<runVars, syncVars, saveVars, restOfTree>>

NextTree ==
    \/ HandleDistributionTree
    \/ Resync

SpecTree == InitTree /\ [][NextTree]_vars

(***************************************************************************)
(* RpmContentSaver: two synchronization runs, each in a worker of its own, *)
(* whose content-persistence stages process a batch of the same            *)
(* update-metadata at the same time. The relation tables are the shared    *)
(* database; _post_save takes no lock, so the queries of the two runs      *)
(* interleave in any order.                                                *)
(***************************************************************************)
Workers == {1, 2}

\* the batch both runs process
Batch == Nodes(source)

InitRace ==
    /\ source \in Sources
    /\ run = 0
    /\ stream = <<>>
    /\ update_records = {}
    /\ collections = <<>>
    /\ collection_packages = <<>>
    /\ references = <<>>
    /\ after_first = NoTables
    /\ inserted = NoTables
    /\ workers = [w \in Workers |->
                    [at |-> "save", i |-> 1, to_save |-> NoTables]]
    /\ IdleRun
    /\ IdleSync
    /\ IdleRestOfRace

\* ContentSaver.run saves the content units of the batch that are not yet
\* persisted and calls _post_save(batch)
EnterPostSave(w) ==
    /\ workers[w].at = "save"
    /\ update_records' = update_records \cup
                            {Batch[i].content : i \in 1..Len(Batch)}
    /\ workers' = [workers EXCEPT ![w].at = "loop"]
    /\ UNCHANGED <<source, run, stream, collections, collection_packages,
                   references, after_first, inserted>>
    /\ UNCHANGED <<runVars, syncVars, restOfRace>>

\* one iteration of: for declarative_content in batch, with its two count()
\* queries; the rows are only appended to the three lists
PostSaveLoop(w) ==
    /\ workers[w].at = "loop"
    /\ workers[w].i <= Len(Batch)
    /\ LET dc == Batch[workers[w].i]
           rows == RowsToSave(dc)
       IN workers' = [workers EXCEPT
            ![w].i = @ + 1,
            ![w].to_save =
                [collections |-> @.collections \o rows.collections,
                 collection_packages |->
                    @.collection_packages \o rows.collection_packages,
                 references |-> @.references \o rows.references]]
    /\ UNCHANGED saveVars
    /\ UNCHANGED <<runVars, syncVars, restOfRace>>

\* the three bulk_create calls after the loop
BulkCreate(w) ==
    /\ workers[w].at = "loop"
    /\ workers[w].i > Len(Batch)
    /\ collections' = collections \o workers[w].to_save.collections
    /\ collection_packages' =
          collection_packages \o workers[w].to_save.collection_packages
    /\ references' = references \o workers[w].to_save.references
    /\ workers' = [workers EXCEPT ![w].at = "done"]
    /\ UNCHANGED <<source, run, stream, update_records, after_first, inserted>>
    /\ UNCHANGED <<runVars, syncVars, restOfRace>>

NextRace ==
    \/ \E w \in Workers : EnterPostSave(w)
    \/ \E w \in Workers : PostSaveLoop(w)
    \/ \E w \in Workers : BulkCreate(w)

SpecRace == InitRace /\ [][NextRace]_vars


(***************************************************************************)
(* RpmDeclarativeVersion: the stages of one destination's pipeline, over   *)
(* successive syncs.  The stages that associate the content and remove the *)
(* duplicates are not part of these sources; they follow the               *)
(* specification's Pipeline Stage Sequencer.                               *)
(***************************************************************************)
\* the Package units a remote may list: the natural key and the pkg id
PackageUnits ==
    [name : {"bash"}, epoch : {"0"}, version : {"1.0"}, release : {"1"},
     arch : {"noarch", "x86_64"}, pkgId : PkgIds]

\* package_dupe_criteria with the pkg id among the field names
package_dupe_criteria_WithPkgId ==
    [model |-> "Package",
     field_names |-> {"name", "epoch", "version", "release", "arch", "pkgId"}]

\* package_dupe_criteria = {'model': Package, 'field_names': [...]}
package_dupe_criteria ==
    [model |-> "Package",
     field_names |-> {"name", "epoch", "version", "release", "arch"}]

\* RpmDeclarativeVersion(..., remove_duplicates=[package_dupe_criteria])
remove_duplicates == <<package_dupe_criteria>>

Stage(name) == [name |-> name, model |-> "", field_names |-> {}]

\* pipeline_stages with the content saved before the artifacts are fetched
pipeline_stages_SaverFirst ==
    << Stage("RpmFirstStage"), Stage("QueryExistingContents"),
       Stage("RpmContentSaver"), Stage("QueryExistingArtifacts"),
       Stage("ArtifactDownloader"), Stage("ArtifactSaver"),
       Stage("RemoteArtifactSaver") >>
    \o [i \in 1..Len(remove_duplicates) |->
          [name |-> "RemoveDuplicates",
           model |-> remove_duplicates[i].model,
           field_names |-> remove_duplicates[i].field_names]]

\* RpmDeclarativeVersion.pipeline_stages
pipeline_stages ==
    << Stage("RpmFirstStage"), Stage("QueryExistingArtifacts"),
       Stage("ArtifactDownloader"), Stage("ArtifactSaver"),
       Stage("QueryExistingContents"), Stage("RpmContentSaver"),
       Stage("RemoteArtifactSaver") >>
    \o [i \in 1..Len(remove_duplicates) |->
          [name |-> "RemoveDuplicates",
           model |-> remove_duplicates[i].model,
           field_names |-> remove_duplicates[i].field_names]]

\* the RemoveDuplicates stages of the pipeline, in order
DuplicateStages ==
    SelectSeq(pipeline_stages, LAMBDA st : st.name = "RemoveDuplicates")

\* the values of a unit's fields that a criteria names
KeyOf(unit, field_names) == [f \in field_names |-> unit[f]]

\* Duplicate removal: the memberships left when one unit per key remains,
\* a unit this sync associated being kept over an older one
Deduplicated(members, new, field_names) ==
    {kept \in SUBSET members :
        \A u \in members :
            LET same == {w \in members :
                            KeyOf(w, field_names) = KeyOf(u, field_names)}
            IN /\ Cardinality(kept \cap same) = 1
               /\ (same \cap new # {}) => (kept \cap same) \subseteq new}

InitDedup ==
    /\ dstage = [at |-> "idle", k |-> 0]
    /\ syncs = 0
    /\ arriving = {}
    /\ content = {}
    /\ version = {}
    /\ fresh = {}
    /\ IdleRun
    /\ IdleSync
    /\ IdleSave
    /\ IdleRestOfDedup

\* dv.create(): the first stage emits the Package nodes of this sync
StartSync ==
    /\ dstage.at = "idle"
    /\ syncs < MaxSyncs
    /\ syncs' = syncs + 1
    /\ \E units \in SUBSET PackageUnits :
          /\ units # {}
          /\ Cardinality(units) <= MaxArriving
          /\ arriving' = units
    /\ fresh' = {}
    /\ dstage' = [at |-> "stream", k |-> 0]
    /\ UNCHANGED <<content, version>>
    /\ UNCHANGED <<runVars, syncVars, saveVars, restOfDedup>>

\* the stream passes the stages up to RemoteArtifactSaver: the units not
\* yet in the content store are persisted, then all are associated
Associate ==
    /\ dstage.at = "stream"
    /\ content' = content \cup arriving
    /\ version' = version \cup arriving
    /\ fresh' = arriving
    /\ arriving' = {}
    /\ dstage' = [at |-> "associated", k |-> 1]
    /\ UNCHANGED syncs
    /\ UNCHANGED <<runVars, syncVars, saveVars, restOfDedup>>

\* the k-th RemoveDuplicates stage of the pipeline
RemoveDuplicates ==
    /\ dstage.at = "associated"
    /\ dstage.k <= Len(DuplicateStages)
    /\ version' \in Deduplicated(version, fresh,
                                 DuplicateStages[dstage.k].field_names)
    /\ dstage' = [dstage EXCEPT !.k = @ + 1]
    /\ UNCHANGED <<syncs, arriving, content, fresh>>
    /\ UNCHANGED <<runVars, syncVars, saveVars, restOfDedup>>

\* the pipeline ends: dv.create() returns
EndSync ==
    /\ dstage.at = "associated"
    /\ dstage.k > Len(DuplicateStages)
    /\ dstage' = [at |-> "idle", k |-> 0]
    /\ fresh' = {}
    /\ UNCHANGED <<syncs, arriving, content, version>>
    /\ UNCHANGED <<runVars, syncVars, saveVars, restOfDedup>>

NextDedup ==
    \/ StartSync
    \/ Associate
    \/ RemoveDuplicates
    \/ EndSync

SpecDedup == InitDedup /\ [][NextDedup]_vars

(***************************************************************************)
(* The nodes of one pipeline. A stage takes the nodes the stage before it  *)
(* in the list has put; a RemoveDuplicates stage works on the destination  *)
(* once the stream has ended.                                              *)
(***************************************************************************)
\* the stages of the list that transform the stream
StreamStages ==
    SelectSeq(pipeline_stages, LAMBDA st : st.name # "RemoveDuplicates")

InitPipeline ==
    /\ \E n \in 0..MaxPipelineNodes : passed = [i \in 1..n |-> <<>>]
    /\ removals = <<>>
    /\ IdleRun
    /\ IdleSync
    /\ IdleSave
    /\ IdleRestOfPipeline

\* the next stage of the list puts node n: the first stage builds it, a
\* later stage takes it from the stage before
PassStage(n) ==
    /\ Len(passed[n]) < Len(pipeline_stages)
    /\ pipeline_stages[Len(passed[n]) + 1].name # "RemoveDuplicates"
    /\ passed' = [passed EXCEPT
                    ![n] = Append(@, pipeline_stages[Len(@) + 1].name)]
    /\ UNCHANGED removals
    /\ UNCHANGED <<runVars, syncVars, saveVars, restOfPipeline>>

\* the stream has ended at the stage before: the next RemoveDuplicates stage
\* of the list runs over the destination
RunRemoveDuplicates ==
    /\ Len(StreamStages) + Len(removals) < Len(pipeline_stages)
    /\ pipeline_stages[Len(StreamStages) + Len(removals) + 1].name
          = "RemoveDuplicates"
    /\ \A n \in 1..Len(passed) : Len(passed[n]) = Len(StreamStages)
    /\ removals' = Append(removals,
                          pipeline_stages[Len(StreamStages) + Len(removals) + 1])
    /\ UNCHANGED passed
    /\ UNCHANGED <<runVars, syncVars, saveVars, restOfPipeline>>

NextPipeline ==
    \/ \E n \in 1..Len(passed) : PassStage(n)
    \/ RunRemoveDuplicates

SpecPipeline == InitPipeline /\ [][NextPipeline]_vars

(***************************************************************************)
(* RpmFirstStage.parse_repodata on three package-metadata files, and the   *)
(* Package nodes RpmFirstStage.run builds from its result                  *)
(***************************************************************************)
Files == BoundedSeq(PkgIds, MaxFileLen)

InitParse ==
    /\ files \in [primary : Files, filelists : Files, other : Files]
    /\ pstage = "files"
    /\ extracted = <<>>
    /\ emitted = <<>>
    /\ IdleRun
    /\ IdleSync
    /\ IdleSave
    /\ IdleRestOfParse

\* packages = await RpmFirstStage.parse_repodata(primary_xml_path,
\*                                               filelists_xml_path,
\*                                               other_xml_path)
Parse ==
    /\ pstage = "files"
    /\ extracted' = parse_repodata(files.primary, files.filelists, files.other)
    /\ pstage' = "packages"
    /\ UNCHANGED <<files, emitted>>
    /\ UNCHANGED <<runVars, syncVars, saveVars, restOfParse>>

\* one iteration of: for pkg in packages.values()
EmitParsed ==
    /\ pstage = "packages"
    /\ extracted # <<>>
    /\ emitted' = Append(emitted, PackageNode(Head(extracted).pkgId, 0))
    /\ extracted' = Tail(extracted)
    /\ UNCHANGED <<files, pstage>>
    /\ UNCHANGED <<runVars, syncVars, saveVars, restOfParse>>

\* the iteration is over
EndParsed ==
    /\ pstage = "packages"
    /\ extracted = <<>>
    /\ pstage' = "done"
    /\ UNCHANGED <<files, extracted, emitted>>
    /\ UNCHANGED <<runVars, syncVars, saveVars, restOfParse>>

NextParse ==
    \/ Parse
    \/ EmitParsed
    \/ EndParsed

SpecParse == InitParse /\ [][NextParse]_vars

(***************************************************************************)
(* Properties of RpmFirstStage.run                                         *)
(***************************************************************************)

\* C1: when the index lists two or more update-metadata entries, a completed
\* run has parsed the file of every entry and has emitted each of that
\* file's records exactly once.
C1_EveryUpdateFileEmitted ==
    LET groups == {g \in 1..Len(downloaders) :
                      downloaders[g][1][2][1] \in Range(UPDATE_REPODATA)}
    IN (pc = "completed" /\ Cardinality(groups) >= 2) =>
          \A g \in groups :
              /\ g \in DOMAIN parsed
              /\ \A i \in 1..parsed[g] :
                    Cardinality({j \in 1..Len(out) :
                                    out[j] = UpdateRecordNode(i, g)}) = 1

\* C2: while the index lists no location for one of primary, filelists and
\* other, the run gets no further than the end of the loop over the records,
\* where it fails; no package parsing starts and no Package node is emitted.
C2_MissingTypeFails ==
    (\E i \in 1..Len(PACKAGE_REPODATA) :
        KeyError(package_repodata_urls, PACKAGE_REPODATA[i])) =>
        /\ pc \in {"index", "tree", "classify", "failed"}
        /\ pc = "failed" => error \in {"FetchError(repomd)", "KeyError"}
        /\ running = <<>>
        /\ parse_args = <<>>
        /\ \A j \in 1..Len(out) : out[j].kind # "Package"

\* the run has failed on an index that lists primary and filelists, but not
\* other, next to one update-metadata entry
C2_Witness ==
    /\ pc = "failed"
    /\ error = "KeyError"
    /\ DOMAIN package_repodata_urls = {"primary", "filelists"}
    /\ Len(downloaders) = 1
    /\ out = IF kickstart THEN <<DistributionTreeNode>> ELSE <<>>

\* C3: without kickstart data the run emits no DistributionTree node; with
\* kickstart data it emits exactly one, as soon as the index has been
\* fetched, and that node comes before every other node of the run.
C3_TreeFirstAndOnce ==
    LET trees == {j \in 1..Len(out) : out[j].kind = "DistributionTree"}
    IN /\ ~kickstart => trees = {}
       /\ kickstart =>
            /\ trees \subseteq {1}
            /\ out # <<>> => trees = {1}
            /\ (pc \notin {"index", "tree"} /\ error # "FetchError(repomd)")
                   => trees = {1}

\* a completed run with kickstart data which emitted Package and
\* UpdateRecord nodes
C3_Witness ==
    /\ kickstart
    /\ pc = "completed"
    /\ \E j \in 1..Len(out) : out[j].kind = "Package"
    /\ \E j \in 1..Len(out) : out[j].kind = "UpdateRecord"

\* C4: package parsing has started, or a Package node has been emitted, only
\* if each of the three package-metadata fetches has returned; the parser is
\* given the three results in the order primary, filelists, other, whatever
\* the order the fetches finished in.
C4_ParseAfterAllThree ==
    (parse_args # <<>> \/ \E j \in 1..Len(out) : out[j].kind = "Package") =>
        LET g == Len(downloaders)
        IN /\ g >= 1
           /\ Len(fetched[g]) = Len(PACKAGE_REPODATA)
           /\ running[g] = {}
           /\ \A k \in 1..Len(fetched[g]) : fetched[g][k].state = "ok"
           /\ parse_args = <<package_repodata_urls["primary"],
                             package_repodata_urls["filelists"],
                             package_repodata_urls["other"]>>

\* a Package node was emitted after the three fetches finished in an order
\* other than primary, filelists, other
C4_Witness ==
    /\ reordered
    /\ parse_args # <<>>
    /\ \E j \in 1..Len(out) : out[j].kind = "Package"

\* C5: a group whose fetches are complete is never held back by the groups
\* that are still fetching: whenever the run waits and some pending group is
\* complete, wait() can return that group.
C5_CompletedGroupNotHeld ==
    \A g \in pending :
        (pc = "wait" /\ GroupComplete(g)) => ENABLED (Wait /\ g \in done')

\* with one update-metadata group and the package-metadata group:
\* UpdateRecord nodes have been emitted while a package-metadata fetch is
\* still running
C5_Witness ==
    /\ Len(downloaders) = 2
    /\ Len(running) = 2
    /\ running[2] # {}
    /\ ~GroupComplete(2)
    /\ \E j \in 1..Len(out) : out[j].kind = "UpdateRecord"

\* with one update-metadata group and the package-metadata group: Package
\* nodes have been emitted while the update-metadata fetch is still running
C5_PackagesWhileUpdatesFetching ==
    /\ Len(downloaders) = 2
    /\ Len(running) = 2
    /\ running[1] # {}
    /\ ~GroupComplete(1)
    /\ \E j \in 1..Len(out) : out[j].kind = "Package"

\* C18: while a fetch of a package-metadata or update-metadata part is under
\* way or has ended, the loop over the index entries is over and the URLs of
\* primary, filelists and other are all resolved; and from the step that
\* starts the fetches on, no URL and no fetch group changes any more.
C18_NoFetchBeforeUrlsResolved ==
    /\ [](FetchStarted =>
            /\ pc \notin {"index", "tree", "classify"}
            /\ \A i \in 1..Len(PACKAGE_REPODATA) :
                  ~KeyError(package_repodata_urls, PACKAGE_REPODATA[i])
            /\ Len(running) = Len(downloaders)
            /\ Len(fetched) = Len(downloaders))
    /\ [][FetchStarted' =>
            /\ package_repodata_urls' = package_repodata_urls
            /\ updateinfo_url' = updateinfo_url
            /\ (FetchStarted => downloaders' = downloaders)]_vars

\* an update-metadata fetch has returned while the three package-metadata
\* fetches are still under way
C18_Witness ==
    /\ pc = "wait"
    /\ Len(running) = 2
    /\ running[1] = {}
    /\ fetched[1][1].state = "ok"
    /\ running[2] = {1, 2, 3}

\* C22: the state of the package progress bar and of the erratum progress
\* bar only moves from waiting to running and from running to completed: a
\* bar is set to completed only when it is running.
C22_ProgressBarTransitions ==
    [][/\ packages_pb'.state # packages_pb.state =>
            <<packages_pb.state, packages_pb'.state>> \in
                {<<"waiting", "running">>, <<"running", "completed">>}
       /\ erratum_pb'.state # erratum_pb.state =>
            <<erratum_pb.state, erratum_pb'.state>> \in
                {<<"waiting", "running">>, <<"running", "completed">>}]_vars

\* C14: once a metadata fetch of the run has failed (the root index, a
\* package-metadata part or an update-metadata part), the run is not and
\* never becomes completed, neither progress bar is marked completed, and
\* the run ends in failure.
C14_FetchFailureFailsRun ==
    LET AnyFailed ==
            \/ error = "FetchError(repomd)"
            \/ \E g \in 1..Len(fetched) : \E k \in 1..Len(fetched[g]) :
                  fetched[g][k].state = "failed"
    IN /\ [](AnyFailed =>
                /\ pc # "completed"
                /\ packages_pb.state # "completed"
                /\ erratum_pb.state # "completed")
       /\ (AnyFailed ~> pc = "failed")

\* the run has failed on the fetch of a package-metadata part after it
\* emitted the UpdateRecord nodes of an update-metadata group
C14_Witness ==
    /\ pc = "failed"
    /\ error = "FetchError(repodata)"
    /\ \E k \in 1..Len(fetched[Len(fetched)]) :
          fetched[Len(fetched)][k].state = "failed"
    /\ \E j \in 1..Len(out) : out[j].kind = "UpdateRecord"
    /\ packages_pb.state # "completed"
    /\ erratum_pb.state = "running"

\* C15: when every issued fetch returns successfully the run terminates; when
\* it has terminated no group is pending or held back and every group has
\* completed; and once the groups exist a group only ever leaves the pending
\* set, in the very step that hands it over as done, so that each group is
\* taken out of the pending set exactly once.
C15_RunTerminates ==
    /\ <>(pc \in {"completed", "failed"})
    /\ [](pc \in {"completed", "failed"} =>
            /\ pending = {}
            /\ done = {}
            /\ \A g \in 1..Len(fetched) : GroupOk(g))
    /\ [][pc # "classify" =>
            /\ pending' \subseteq pending
            /\ (pending \ pending') = (done' \ done)]_vars

\* a completed run that had two update-metadata groups and the
\* package-metadata group, all of them taken out of the pending set
C15_Witness ==
    /\ pc = "completed"
    /\ Len(fetched) = 3
    /\ \A g \in 1..Len(fetched) : GroupOk(g)
    /\ pending = {}
    /\ done = {}

(***************************************************************************)
(* Properties of synchronize                                               *)
(***************************************************************************)

\* C6: for a remote without a url, synchronize fails with the configuration
\* error (ValueError) and does nothing else: no fetch is made, no repository
\* is created for a sub-tree and no pipeline is run.
C6_NoUrlNoWork ==
    ~remote.url =>
        /\ spc \in {"idle", "start", "failed"}
        /\ spc = "failed" => sync_error = [type |-> "ValueError", status |-> 0]
        /\ fetches = <<>>
        /\ repositories = {}
        /\ runs = <<>>
        /\ kickstart_data = NoKickstart

\* synchronize has failed on a remote without a url
C6_Witness ==
    /\ ~remote.url
    /\ spc = "failed"
    /\ sync_error.type = "ValueError"

\* C7: the sub-trees are probed one after the other in the order of the
\* loops; a sub-tree whose probe answers 404 gets no pipeline run and raises
\* no error, and synchronize goes on with the next sub-tree or, after the
\* last one, with the primary run.
C7_NotFoundSubTreeSkipped ==
    LET positions == Positions(kickstart_data, resource_names)
        probes == SelectSeq(fetches, LAMBDA f : Len(f.url) = 3)
        Path(n) == << <<positions[n].name, positions[n].i>> >>
    IN /\ sync_error.status # NOT_FOUND
       /\ Len(probes) <= Len(positions)
       /\ \A n \in 1..Len(probes) :
            /\ probes[n].url =
                  urljoin(RemoteUrl,
                          Path(n) \o << <<"repodata/repomd.xml", 0>> >>)
            /\ probes[n].status = NOT_FOUND =>
                  /\ \A r \in 1..Len(runs) : runs[r].url_path # Path(n)
                  /\ n = Len(probes) =>
                        IF n < Len(positions)
                        THEN /\ cursor = positions[n + 1]
                             /\ spc \in {"subtree_new", "subtree_probe"}
                        ELSE /\ AtEnd(cursor)
                             /\ spc \in {"primary", "primary_create", "done",
                                         "failed"}
                             /\ spc = "failed" =>
                                   /\ runs # <<>>
                                   /\ runs[Len(runs)].repository = MainRepository
                                   /\ runs[Len(runs)].state = "failed"
       /\ spc = "done" =>
            /\ Len(probes) = Len(positions)
            /\ runs[Len(runs)].repository = MainRepository

\* synchronize is done; the probe of the first sub-tree answered 404, and a
\* later sub-tree was run
C7_Witness ==
    LET probes == SelectSeq(fetches, LAMBDA f : Len(f.url) = 3)
    IN /\ spc = "done"
       /\ Len(probes) >= 2
       /\ probes[1].status = NOT_FOUND
       /\ Len(runs) >= 2

\* C8: once the probe of a sub-tree has failed with a status other than 404,
\* or the pipeline run of a sub-tree has failed, synchronize has failed with
\* that error: the failure is the last thing it did, no repository is
\* created and no probe is made for a later sub-tree, and the primary
\* pipeline is never run.
C8_SubTreeFailureIsFatal ==
    LET positions == Positions(kickstart_data, resource_names)
        probes == SelectSeq(fetches, LAMBDA f : Len(f.url) = 3)
        Path(n) == << <<positions[n].name, positions[n].i>> >>
        FailedProbe(n) == probes[n].status \notin {HTTP_OK, NOT_FOUND}
        FailedRun(r) == /\ runs[r].repository # MainRepository
                        /\ runs[r].state = "failed"
    IN (\/ \E n \in 1..Len(probes) : FailedProbe(n)
        \/ \E r \in 1..Len(runs) : FailedRun(r)) =>
          /\ spc = "failed"
          /\ \A r \in 1..Len(runs) : runs[r].repository # MainRepository
          /\ Cardinality(repositories) = Len(probes)
          /\ \A n \in 1..Len(probes) : FailedProbe(n) =>
                /\ n = Len(probes)
                /\ sync_error = [type |-> "ClientResponseError",
                                 status |-> probes[n].status]
                /\ \A r \in 1..Len(runs) : runs[r].url_path # Path(n)
          /\ \A r \in 1..Len(runs) : FailedRun(r) =>
                /\ r = Len(runs)
                /\ sync_error.type = "PipelineError"
                /\ runs[r].url_path = Path(Len(probes))

\* synchronize has failed on the probe of a sub-tree, after the run of an
\* earlier sub-tree and before the last sub-tree
C8_Witness ==
    LET positions == Positions(kickstart_data, resource_names)
        probes == SelectSeq(fetches, LAMBDA f : Len(f.url) = 3)
    IN /\ spc = "failed"
       /\ sync_error.type = "ClientResponseError"
       /\ probes # <<>>
       /\ probes[Len(probes)].status = HTTP_ERROR
       /\ Len(probes) < Len(positions)
       /\ runs # <<>>

\* C9: the pipeline runs are sequential, every run but the last has
\* returned; the runs of the addons come before the runs of the variants;
\* the primary run is the last run; a successful synchronize has run the
\* primary pipeline exactly once, after the run of every sub-tree whose
\* probe succeeded.
C9_PrimaryOnceAndLast ==
    LET primary == {r \in 1..Len(runs) : runs[r].repository = MainRepository}
        probes == SelectSeq(fetches, LAMBDA f : Len(f.url) = 3)
        Name(r) == runs[r].url_path[1][1]
    IN /\ \A r \in 1..(Len(runs) - 1) : runs[r].state = "ok"
       /\ \A r \in primary : r = Len(runs)
       /\ \A r \in 1..Len(runs) : \A q \in (r + 1)..Len(runs) :
             (q \notin primary) => ~(Name(r) = "variants" /\ Name(q) = "addons")
       /\ spc = "done" =>
             /\ Cardinality(primary) = 1
             /\ runs[Len(runs)].state = "ok"
             /\ Len(runs) - 1 =
                   Cardinality({n \in 1..Len(probes) : probes[n].status = HTTP_OK})

\* synchronize is done after the run of an addon, the run of a variant and
\* the primary run
C9_Witness ==
    /\ spc = "done"
    /\ Len(runs) >= 3
    /\ runs[1].url_path[1][1] = "addons"
    /\ runs[Len(runs) - 1].url_path[1][1] = "variants"
    /\ runs[Len(runs)].repository = MainRepository

\* C12: the tree-info probes are the first fetches of synchronize, at most
\* two: ".treeinfo", then "treeinfo" only after a 404 of the first. After
\* two 404s there is no kickstart data: no repository is created, no
\* further fetch is made by synchronize, and the only pipeline run is the
\* primary one, given no kickstart data (so it emits no DistributionTree).
\* A probe that fails with another status ends synchronize with that
\* error, with no repository created and no pipeline run.
C12_TreeInfoProbes ==
    LET probes == SelectSeq(fetches, LAMBDA f : Len(f.url) = 2)
        Failed(f) == f.status \notin {HTTP_OK, NOT_FOUND}
    IN /\ Len(probes) <= 2
       /\ \A i \in 1..Len(probes) : fetches[i] = probes[i]
       /\ Len(probes) >= 1 =>
             probes[1].url = urljoin(RemoteUrl, << <<".treeinfo", 0>> >>)
       /\ Len(probes) = 2 =>
             /\ probes[1].status = NOT_FOUND
             /\ probes[2].url = urljoin(RemoteUrl, << <<"treeinfo", 0>> >>)
       /\ (Len(probes) = 2 /\ probes[2].status = NOT_FOUND) =>
             /\ kickstart_data = NoKickstart
             /\ repositories = {}
             /\ Len(fetches) = 2
             /\ spc \in {"primary", "primary_create", "done", "failed"}
             /\ \A r \in 1..Len(runs) :
                   /\ runs[r].repository = MainRepository
                   /\ ~runs[r].kickstart
       /\ \A i \in 1..Len(probes) : Failed(probes[i]) =>
             /\ i = Len(fetches)
             /\ spc = "failed"
             /\ sync_error = [type |-> "ClientResponseError",
                              status |-> probes[i].status]
             /\ repositories = {}
             /\ runs = <<>>

\* synchronize is done after a 404 at both tree-info locations
C12_Witness ==
    /\ spc = "done"
    /\ Len(fetches) = 2
    /\ fetches[1].status = NOT_FOUND
    /\ fetches[2].status = NOT_FOUND
    /\ Len(runs) = 1
    /\ ~runs[1].kickstart

\* C16: the main repository has no version until synchronize has returned;
\* after a successful synchronize of an on_demand remote that exposes tree
\* info it has its first version, the run that built it deferred the
\* downloads, and the DistributionTree unit is in that version and among the
\* content the version added.
C16_FirstSyncAddsTree ==
    /\ spc # "done" => latest_version(MainRepository) = 0
    /\ (spc = "done" /\ remote.policy = "on_demand" /\ kickstart_data.found) =>
          /\ latest_version(MainRepository) = 1
          /\ versions(MainRepository)[1].deferred_download
          /\ DistributionTreeNode \in content_of(MainRepository)
          /\ DistributionTreeNode \in added_content(MainRepository)

\* synchronize of an on_demand remote with tree info, an addon and a variant
\* has returned
C16_Witness ==
    /\ spc = "done"
    /\ remote.policy = "on_demand"
    /\ kickstart_data.found
    /\ Len(kickstart_data.addons) > 0
    /\ Len(kickstart_data.variants) > 0
    /\ latest_version(MainRepository) = 1
    /\ DistributionTreeNode \in added_content(MainRepository)

\* C23: the run of a sub-tree builds a version of the repository created
\* for that sub-tree, which is neither the main repository nor the
\* repository of another sub-tree; no two runs build a version of the same
\* repository; and only the primary run, the one with no sub-path, builds a
\* version of the main repository.
C23_SubTreeRunsIsolated ==
    /\ \A r \in 1..Len(runs) :
          IF runs[r].url_path = <<>>
          THEN runs[r].repository = MainRepository
          ELSE /\ runs[r].repository # MainRepository
               /\ runs[r].repository \in repositories
               /\ \A name \in Range(resource_names) :
                     \A i \in 1..Len(kickstart_data[name]) :
                        (kickstart_data[name][i].repository_id = runs[r].repository)
                        <=> (kickstart_data[name][i].packages = runs[r].url_path)
    /\ \A r \in 1..Len(runs) : \A q \in 1..Len(runs) :
          runs[r].repository = runs[q].repository => r = q
    /\ \A r \in 1..Len(runs) :
          versions(runs[r].repository) \in
             {<<>>, <<[runs[r] EXCEPT !.state = "ok"]>>}

\* synchronize is done after the runs of two sub-trees and the primary run
C23_Witness ==
    /\ spc = "done"
    /\ Len(runs) = 3
    /\ runs[1].repository # runs[2].repository
    /\ latest_version(runs[1].repository) = 1
    /\ latest_version(runs[2].repository) = 1
    /\ latest_version(MainRepository) = 1

\* C25: when the probe of a sub-tree is made, one repository has been
\* created for that sub-tree and its key is recorded in the sub-tree's
\* entry, whatever the probe answers: the sub-trees probed so far and the
\* repositories created so far correspond one to one. When the primary run
\* is built, every sub-tree of the kickstart data has its own recorded
\* repository, and that of a sub-tree skipped on 404 has no version.
C25_RepositoryRecordedBeforeProbe ==
    LET positions == Positions(kickstart_data, resource_names)
        probes == SelectSeq(fetches, LAMBDA f : Len(f.url) = 3)
        created == IF spc = "subtree_probe" THEN Len(probes) + 1
                   ELSE Len(probes)
        Id(n) == kickstart_data[positions[n].name][positions[n].i].repository_id
    IN /\ Cardinality(repositories) = created
       /\ created <= Len(positions)
       /\ \A n \in 1..Len(positions) :
             IF n <= created
             THEN /\ Id(n) \in repositories
                  /\ Id(n) # MainRepository
                  /\ \A k \in 1..created : Id(k) = Id(n) => k = n
             ELSE Id(n) \notin repositories
       /\ spc = "subtree_probe" => positions[created] = cursor
       /\ spc \in {"primary_create", "done"} =>
             /\ created = Len(positions)
             /\ \A n \in 1..Len(probes) :
                   probes[n].status = NOT_FOUND => versions(Id(n)) = <<>>

\* synchronize is done; the probe of the second of three sub-trees answered
\* 404, and the entry of that sub-tree has the key of its own repository
C25_Witness ==
    LET positions == Positions(kickstart_data, resource_names)
        probes == SelectSeq(fetches, LAMBDA f : Len(f.url) = 3)
    IN /\ spc = "done"
       /\ Len(probes) = 3
       /\ probes[2].status = NOT_FOUND
       /\ kickstart_data[positions[2].name][positions[2].i].repository_id
             \in repositories \ {MainRepository}
       /\ Cardinality(repositories) = 3
       /\ Len(runs) = 3

\* C26: in a synchronize call with kickstart data, the only run whose first
\* stage puts the DistributionTree node is the primary run, which does put
\* it; the first stage of a sub-tree run puts none, so the repository of a
\* sub-tree never has a DistributionTree unit, the node whose saving writes
\* the Addon, Checksum, Image and Variant rows.
C26_TreeNodeFromPrimaryOnly ==
    kickstart_data.found =>
        /\ \A r \in 1..Len(runs) :
              tree_units(runs[r]) =
                 IF /\ runs[r].repository = MainRepository
                    /\ runs[r].url_path = <<>>
                 THEN {DistributionTreeNode} ELSE {}
        /\ Cardinality({r \in 1..Len(runs) : tree_units(runs[r]) # {}}) <= 1
        /\ \A id \in repositories :
              /\ content_of(id) = {}
              /\ added_content(id) = {}

\* synchronize is done with kickstart data: two sub-trees were run into
\* their repositories, and the main repository has the DistributionTree unit
C26_Witness ==
    /\ spc = "done"
    /\ kickstart_data.found
    /\ Cardinality({id \in repositories : latest_version(id) = 1}) >= 2
    /\ DistributionTreeNode \in content_of(MainRepository)
    /\ tree_units(runs[1]) = {}

(***************************************************************************)
(* Properties of RpmContentSaver                                           *)
(***************************************************************************)

\* C19: every Package node carries exactly one declarative artifact; its url
\* is the package's location below the directory of remote.url, with the
\* sub-path of the run in between when the run is one of a sub-tree,
\* whatever slashes the sub-path was written with; its relative path is the
\* file name of the location; and it is deferred exactly when the policy of
\* the remote is not immediate. DistributionTree and UpdateRecord nodes
\* carry no declarative artifact.
C19_PackageArtifact ==
    \A n \in 1..Len(nodes) :
        IF nodes[n].kind = "Package"
        THEN /\ Len(nodes[n].d_artifacts) = 1
             /\ nodes[n].d_artifacts[1].url =
                   SubSeq(address, 1, Len(address) - 1)
                   \o SelectSeq(stage.url_path, LAMBDA seg : seg # EmptySegment)
                   \o nodes[n].id
             /\ nodes[n].d_artifacts[1].deferred_download
                   = (remote.policy # "immediate")
        ELSE nodes[n].d_artifacts = <<>>

\* the first stage of a sub-tree, whose sub-path was written with slashes at
\* both ends, has put a Package node and an UpdateRecord node for an
\* on_demand remote
C19_Witness ==
    /\ stage.url_path = <<EmptySegment, <<"addons", 1>>, EmptySegment>>
    /\ remote.policy = "on_demand"
    /\ \E n \in 1..Len(nodes) :
          /\ nodes[n].kind = "Package"
          /\ Len(nodes[n].id) = 2
          /\ nodes[n].d_artifacts[1].deferred_download
    /\ \E n \in 1..Len(nodes) : nodes[n].kind = "UpdateRecord"

\* C10: in the second of two syncs of the same source, no UpdateCollection,
\* UpdateCollectionPackage or UpdateReference row is inserted for an update
\* record which had a collection or a reference after the first sync; the
\* rows of such a record stay the ones it had after the first sync.
C10_SecondRunAddsNoRows ==
    run \in {2, 3} =>
        \A r \in update_records :
            (\/ Len(RowsOf(after_first.collections, r)) # 0
             \/ Len(RowsOf(after_first.references, r)) # 0) =>
                /\ RowsOf(inserted.collections, r) = <<>>
                /\ RowsOf(inserted.collection_packages, r) = <<>>
                /\ RowsOf(inserted.references, r) = <<>>
                /\ RowsOf(collections, r) = RowsOf(after_first.collections, r)
                /\ RowsOf(collection_packages, r) =
                      RowsOf(after_first.collection_packages, r)
                /\ RowsOf(references, r) = RowsOf(after_first.references, r)

\* the second sync is over, of a source with a record that has a collection
\* with a package and a reference, all three persisted by the first sync
C10_Witness ==
    /\ run = 3
    /\ \E r \in update_records :
          /\ r.ncoll >= 1 /\ r.npkg >= 1 /\ r.nref >= 1
          /\ Len(RowsOf(after_first.collections, r)) >= 1
          /\ Len(RowsOf(collection_packages, r)) >= 1
          /\ Len(RowsOf(references, r)) >= 1

\* C24: the rows one batch inserts for an update record are at most the
\* collections, packages and references the record carries, each once, also
\* when the record is the content of two nodes of the batch.
C24_BatchInsertsRelationsOnce ==
    \A r \in Range(source) :
        /\ Len(RowsOf(inserted.collections, r))
              <= Len(future_relations(r).collections)
        /\ Len(RowsOf(inserted.collection_packages, r))
              <= Len(future_relations(r).collections) * r.npkg
        /\ Len(RowsOf(inserted.references, r))
              <= Len(future_relations(r).references)

(***************************************************************************)
(* Properties of the destination over successive syncs                     *)
(***************************************************************************)

\* C17: of two concurrent runs carrying the same update record with
\* relations, at most one inserts the relations of that record: the rows of
\* the record are never inserted by both.
C17_RelationsInsertedByOneRun ==
    \A u \in Range(source) :
        LET inserting == {w \in Workers :
                /\ workers[w].at = "done"
                /\ \/ Len(RowsOf(workers[w].to_save.collections, u)) # 0
                   \/ Len(RowsOf(workers[w].to_save.references, u)) # 0}
        IN Cardinality(inserting) <= 1

\* C20: processing the node of a distribution tree never raises, and after
\* the node of the same tree with the same tree info has been processed a
\* second time the Addon, Checksum, Image and Variant rows are those left by
\* the first time.
C20_TreeRowsIdempotent ==
    /\ tree_error = ""
    /\ tstage # "failed"
    /\ tstage \in {"resync", "second", "done"} => tables = first_rows
    /\ tstage = "done" =>
          \A name \in {"Addon", "Checksum", "Image", "Variant"} :
             Cardinality(tables[name]) =
                Len(tree_data[CASE name = "Addon" -> "addons"
                                [] name = "Checksum" -> "checksums"
                                [] name = "Image" -> "images"
                                [] name = "Variant" -> "variants"])

\* the node of a tree with addons, a checksum, an image and variants has been
\* processed in a second sync, which made new repositories
C20_Witness ==
    /\ tstage = "done"
    /\ Len(tree_data.addons) = MaxAddons
    /\ Len(tree_data.checksums) > 0
    /\ Len(tree_data.images) > 0
    /\ Cardinality(tables.Variant) = MaxVariants
    /\ \A row \in tables.Variant : row.data # tree_data.variants[row.data.uid]

C13_OnlyPrimaryPackageIds ==
    LET ids == Range(files.primary)
        Ids(seq) == {seq[i].id : i \in 1..Len(seq)}
    IN /\ pstage = "packages" =>
             /\ Ids(emitted) \cup {extracted[i].pkgId : i \in 1..Len(extracted)}
                   = ids
             /\ Len(emitted) + Len(extracted) = Cardinality(ids)
       /\ pstage = "done" =>
             /\ Ids(emitted) = ids
             /\ Len(emitted) = Cardinality(ids)
             /\ \A i \in 1..Len(emitted) : emitted[i].kind = "Package"

\* the nodes are built; filelists named a package id that primary does
\* not, and primary named one package id twice
C13_Witness ==
    /\ pstage = "done"
    /\ emitted # <<>>
    /\ Range(files.filelists) \ Range(files.primary) # {}
    /\ Len(files.primary) > Cardinality(Range(files.primary))

=============================================================================
